---- MODULE Spec2Model ----
(***************************************************************************)
(* Model of the task store and credential store of the to-do list manager  *)
(* (src/models/task_manager.py, src/helpers/utils.py) and of the dialogs   *)
(* that drive them (src/ui).  Each store method is one action: the method  *)
(* runs inside one `with conn:` block, which commits on normal exit and    *)
(* rolls back when an exception leaves the block.  Storage failures        *)
(* (sqlite3.Error) are not part of the model.                              *)
(*                                                                         *)
(* The notification scheduler (src/services/notification.py and the older *)
(* src/notification_manager.py), the poller (src/models/task_tracker.py)   *)
(* and the preference store are modelled with a clock `now`, the record    *)
(* `sent_notifications` of last-sent times and the queue `events` of       *)
(* due-task signals not yet handled by the slot.                           *)
(*                                                                         *)
(* Text values (task names, usernames, passwords, salts) are sequences of  *)
(* one-character strings.  None / NULL is the string "None" for text       *)
(* columns and 0 for ids (AUTOINCREMENT ids start at 1).                   *)
(***************************************************************************)
EXTENDS Integers, Sequences, FiniteSets, TLC

(* ---------------------------------------------------------------------- *)
(* Bounds                                                                 *)
(* ---------------------------------------------------------------------- *)
MaxTasks == 3
MaxFileRows == 2
MaxUsers == 2
MaxQueryTasks == 2
MaxPollTasks == 1
MaxEvents == 1
MaxActivity == 4

(* ---------------------------------------------------------------------- *)
(* Program constants                                                      *)
(* ---------------------------------------------------------------------- *)
STATUS_INACTIVE == 0
STATUS_ACTIVE == 1
STATUS_COMPLETED == 2
MinUsernameLen == 4
MinPasswordLen == 8
CsvMinFields == 5

NoneId == 0
NoneText == "None"

(* ---------------------------------------------------------------------- *)
(* Input domains                                                          *)
(* ---------------------------------------------------------------------- *)
UserIds == 1..2
OneUser == { 1 }
ValidTaskNames == { <<"a">> }
TaskNames == { <<" ">> } \cup ValidTaskNames
DueDates == { "2025-01-01" }
PriorityNames == { "High" }
Categories == { "Bills" }
Colors == { "#ff0000" }
Whitespace == { " " }

LowerChars == { "a", "b", "n", "o" }
UpperChars == { "A", "B" }
DigitChars == { "0", "1" }
SymbolChars == { "!", "@", "#", "$", "%", "^", "&", "*", "(", ")" }
Alphabet == LowerChars \cup UpperChars \cup DigitChars \cup SymbolChars

Usernames == { <<"a", "n", "n", "a">>, <<"b", "o", "b">> }
StrongPassword == <<"A", "a", "1", "!", "a", "a", "a", "a">>
WeakPassword == <<"a", "a", "1", "!", "a", "a", "a", "a">>
Passwords == { StrongPassword, WeakPassword }
Salts == { <<"salt1">>, <<"salt2">> }
ProfileNames == { "Anna" }
Emails == { "anna@example.org" }

(* Task names and search texts of the search specification: "b m" and     *)
(* "b a m" stand for "Buy milk" and "Buy almond milk", "mx" holds the text *)
(* "m" as part of a longer word.                                           *)
SearchNames == { <<"b", " ", "m">>, <<"b", " ", "a", " ", "m">>,
                 <<"M", "x">> }
SearchTexts == { <<"m">>, <<"M">>, <<"a">>, <<"%">>, <<"(">>, <<>> }

VARIABLES tasks, priorities, users, preferences, sent_notifications, now,
          app, events, csv_file, task_tracker, login_dialog, user_activity, exited, task_row_to_id, task_table,
          last

vars == <<tasks, priorities, users, preferences, sent_notifications, now,
          app, events, csv_file, task_tracker, login_dialog, user_activity, exited, task_row_to_id, task_table,
          last>>

(* ---------------------------------------------------------------------- *)
(* helpers/utils.py                                                        *)
(* ---------------------------------------------------------------------- *)
RECURSIVE LStrip(_)
LStrip(s) ==
    IF s # <<>> /\ Head(s) \in Whitespace THEN LStrip(Tail(s)) ELSE s

RECURSIVE RStrip(_)
RStrip(s) ==
    IF s # <<>> /\ s[Len(s)] \in Whitespace
    THEN RStrip(SubSeq(s, 1, Len(s) - 1))
    ELSE s

Strip(s) == RStrip(LStrip(s))

is_valid_task_name(task_name) == Len(Strip(task_name)) > 0

is_valid_username(username) == Len(username) >= MinUsernameLen

(* REGEX_PATTERNS['password']: four lookaheads and .{8,}                   *)
PasswordPatternMatches(password) ==
    /\ \E i \in 1..Len(password) : password[i] \in LowerChars
    /\ \E i \in 1..Len(password) : password[i] \in UpperChars
    /\ \E i \in 1..Len(password) : password[i] \in DigitChars
    /\ \E i \in 1..Len(password) : password[i] \in SymbolChars
    /\ Len(password) >= MinPasswordLen

is_valid_password(password) ==
    IF ~ PasswordPatternMatches(password)
    THEN << FALSE, "Password must contain ..." >>
    ELSE << TRUE, "" >>

(* SHA-256 of password bytes followed by salt bytes; the digest is modelled *)
(* as an injective function of the concatenated input.                     *)
Sha256Hex(bytes) == << "sha256", bytes >>

hash_password(password, salt) == << Sha256Hex(password \o salt), salt >>

(* ---------------------------------------------------------------------- *)
(* Credential store                                                        *)
(* ---------------------------------------------------------------------- *)
create_user(username, password) ==
    /\ Len(users) < MaxUsers
    /\ \E fresh \in Salts :
          LET h == hash_password(password, fresh)
          IN  users' = Append(users,
                  [id |-> Len(users) + 1, name |-> NoneText,
                   username |-> username, email |-> NoneText,
                   password |-> h[1], salt |-> h[2],
                   status |-> STATUS_ACTIVE])
    /\ last' = [op |-> "create_user", username |-> username,
                password |-> password, id |-> Len(users) + 1,
                exc |-> NoneText, ret |-> NoneText]
    /\ UNCHANGED <<tasks, priorities,
                 preferences, sent_notifications, now, app, events, csv_file, task_tracker, login_dialog, user_activity, exited, task_row_to_id, task_table>>

(* SELECT ... WHERE username = ? with fetchone(): the first matching row   *)
(* of the table scan, which is in rowid order.                             *)
verify_user(username, password) ==
    LET found == { i \in 1..Len(users) : users[i].username = username }
    IN  IF found = {} THEN << FALSE, NoneId >>
        ELSE LET row == users[CHOOSE i \in found : \A j \in found : i <= j]
             IN  IF row.password = hash_password(password, row.salt)[1]
                 THEN << TRUE, row.id >>
                 ELSE << FALSE, NoneId >>

update_user_profile(user_id, name, username, email) ==
    /\ users' = [i \in 1..Len(users) |->
                   IF users[i].id = user_id
                   THEN [users[i] EXCEPT !.name = name,
                                         !.username = username,
                                         !.email = email]
                   ELSE users[i]]
    /\ last' = [op |-> "update_user_profile", id |-> user_id,
                exc |-> NoneText, ret |-> TRUE]
    /\ UNCHANGED <<tasks, priorities,
                 preferences, sent_notifications, now, app, events, csv_file, task_tracker, login_dialog, user_activity, exited, task_row_to_id, task_table>>

update_user_password(user_id, new_password) ==
    /\ \E fresh \in Salts :
          LET h == hash_password(new_password, fresh)
          IN  users' = [i \in 1..Len(users) |->
                          IF users[i].id = user_id
                          THEN [users[i] EXCEPT !.password = h[1],
                                                !.salt = h[2]]
                          ELSE users[i]]
    /\ last' = [op |-> "update_user_password", id |-> user_id,
                exc |-> NoneText, ret |-> TRUE]
    /\ UNCHANGED <<tasks, priorities,
                 preferences, sent_notifications, now, app, events, csv_file, task_tracker, login_dialog, user_activity, exited, task_row_to_id, task_table>>

(* RegistrationDialog.register: after the two field checks it evaluates    *)
(* self.task_manager.is_valid_username, an attribute TaskManager does not  *)
(* have, so the slot ends in AttributeError before any row is written.     *)
register(username, password, password_repeat) ==
    /\ users' = users
    /\ IF username = <<>> \/ password = <<>> \/ password_repeat = <<>>
       THEN last' = [op |-> "register", username |-> username,
                     exc |-> NoneText, ret |-> "Incomplete"]
       ELSE IF password # password_repeat
       THEN last' = [op |-> "register", username |-> username,
                     exc |-> NoneText, ret |-> "Mismatch"]
       ELSE last' = [op |-> "register", username |-> username,
                     exc |-> "AttributeError", ret |-> NoneText]
    /\ UNCHANGED <<tasks, priorities,
                 preferences, sent_notifications, now, app, events, csv_file, task_tracker, login_dialog, user_activity, exited, task_row_to_id, task_table>>

(* ---------------------------------------------------------------------- *)
(* Task store                                                              *)
(* ---------------------------------------------------------------------- *)
TaskRow(id, user_id, name, due_date, priority, category, status) ==
    [id |-> id, user_id |-> user_id, name |-> name, due_date |-> due_date,
     priority |-> priority, category |-> category, status |-> status]

NextTaskId(tbl) == Len(tbl) + 1

(* The statuses, before a call, of the rows the call addresses; kept in     *)
(* `last` as part of the record of the call.                               *)
StatusesOf(task_ids) ==
    { tasks[i].status : i \in { j \in 1..Len(tasks) : tasks[j].id \in task_ids } }

(* TaskManager.add_task on the tables of the store.                        *)
TaskManager_add_task(user_id, task_name, due_date, priority, category) ==
    /\ Len(tasks) < MaxTasks
    /\ IF ~ is_valid_task_name(task_name)
       THEN /\ tasks' = tasks
            /\ last' = [op |-> "add_task",
                        name |-> task_name, exc |-> "ValueError",
                        err |-> NoneText, id |-> NoneId]
       ELSE /\ tasks' = Append(tasks,
                   TaskRow(NextTaskId(tasks), user_id, task_name, due_date,
                           priority, category, STATUS_ACTIVE))
            /\ last' = [op |-> "add_task",
                        name |-> task_name, exc |-> NoneText,
                        err |-> NoneText, id |-> NextTaskId(tasks)]
    /\ UNCHANGED <<priorities, users,
                 preferences, sent_notifications, now, app, events, csv_file, task_tracker, login_dialog, user_activity, exited>>

add_task(user_id, task_name, due_date, priority, category) ==
    /\ TaskManager_add_task(user_id, task_name, due_date, priority, category)
    /\ UNCHANGED <<task_row_to_id, task_table>>

(* TaskManager.update_task on the tables of the store.                     *)
TaskManager_update_task(task_id, name, due_date, priority, category) ==
    /\ tasks' = [i \in 1..Len(tasks) |->
                   IF tasks[i].id = task_id
                   THEN [tasks[i] EXCEPT !.name = name, !.due_date = due_date,
                                         !.priority = priority,
                                         !.category = category]
                   ELSE tasks[i]]
    /\ last' = [op |-> "update_task", id |-> task_id,
                exc |-> NoneText, ret |-> NoneText]
    /\ UNCHANGED <<priorities, users,
                 preferences, sent_notifications, now, app, events, csv_file, task_tracker, login_dialog, user_activity, exited>>

(* Variant: the UPDATE also writes status = 1.                             *)
update_task_SetsActive(task_id, name, due_date, priority, category) ==
    /\ tasks' = [i \in 1..Len(tasks) |->
                   IF tasks[i].id = task_id
                   THEN [tasks[i] EXCEPT !.name = name, !.due_date = due_date,
                                         !.priority = priority,
                                         !.category = category,
                                         !.status = STATUS_ACTIVE]
                   ELSE tasks[i]]
    /\ last' = [op |-> "update_task", id |-> task_id,
                exc |-> NoneText, ret |-> NoneText]
    /\ UNCHANGED <<priorities, users,
                 preferences, sent_notifications, now, app, events, csv_file, task_tracker, login_dialog, user_activity, exited, task_row_to_id, task_table>>

update_task(task_id, name, due_date, priority, category) ==
    /\ TaskManager_update_task(task_id, name, due_date, priority, category)
    /\ UNCHANGED <<task_row_to_id, task_table>>

(* TaskManager.remove_tasks on the tables of the store.                    *)
TaskManager_remove_tasks(task_ids) ==
    /\ tasks' = [i \in 1..Len(tasks) |->
                   IF tasks[i].id \in task_ids
                   THEN [tasks[i] EXCEPT !.status = STATUS_INACTIVE]
                   ELSE tasks[i]]
    /\ last' = [op |-> "remove_tasks", ids |-> task_ids,
                prev |-> StatusesOf(task_ids), exc |-> NoneText,
                ret |-> "Tasks successfully set as inactive."]
    /\ UNCHANGED <<priorities, users,
                 preferences, sent_notifications, now, app, events, csv_file, task_tracker, login_dialog, user_activity, exited>>

(* Variant: DELETE FROM tasks WHERE id IN (...).                           *)
remove_tasks_Deletes(task_ids) ==
    /\ tasks' = SelectSeq(tasks, LAMBDA t : t.id \notin task_ids)
    /\ last' = [op |-> "remove_tasks", ids |-> task_ids,
                prev |-> StatusesOf(task_ids), exc |-> NoneText,
                ret |-> "Tasks successfully set as inactive."]
    /\ UNCHANGED <<priorities, users,
                 preferences, sent_notifications, now, app, events, csv_file, task_tracker, login_dialog, user_activity, exited, task_row_to_id, task_table>>

(* Variant: the UPDATE flips the flag, so a second removal restores.       *)
remove_tasks_Toggles(task_ids) ==
    /\ tasks' = [i \in 1..Len(tasks) |->
                   IF tasks[i].id \in task_ids
                   THEN [tasks[i] EXCEPT !.status =
                           IF tasks[i].status = STATUS_INACTIVE
                           THEN STATUS_ACTIVE ELSE STATUS_INACTIVE]
                   ELSE tasks[i]]
    /\ last' = [op |-> "remove_tasks", ids |-> task_ids,
                prev |-> StatusesOf(task_ids), exc |-> NoneText,
                ret |-> "Tasks successfully set as inactive."]
    /\ UNCHANGED <<priorities, users,
                 preferences, sent_notifications, now, app, events, csv_file, task_tracker, login_dialog, user_activity, exited, task_row_to_id, task_table>>

remove_tasks(task_ids) ==
    /\ TaskManager_remove_tasks(task_ids)
    /\ UNCHANGED <<task_row_to_id, task_table>>

(* Variant: completing a completed task reopens it.                        *)
set_task_complete_Toggles(task_id) ==
    /\ tasks' = [i \in 1..Len(tasks) |->
                   IF tasks[i].id = task_id
                   THEN [tasks[i] EXCEPT !.status =
                           IF tasks[i].status = STATUS_COMPLETED
                           THEN STATUS_ACTIVE ELSE STATUS_COMPLETED]
                   ELSE tasks[i]]
    /\ last' = [op |-> "set_task_complete", id |-> task_id,
                prev |-> StatusesOf({task_id}), exc |-> NoneText]
    /\ UNCHANGED <<priorities, users,
                 preferences, sent_notifications, now, app, events, csv_file, task_tracker, login_dialog, user_activity, exited, task_row_to_id, task_table>>

set_task_complete(task_id) ==
    /\ tasks' = [i \in 1..Len(tasks) |->
                   IF tasks[i].id = task_id
                   THEN [tasks[i] EXCEPT !.status = STATUS_COMPLETED]
                   ELSE tasks[i]]
    /\ last' = [op |-> "set_task_complete", id |-> task_id,
                prev |-> StatusesOf({task_id}), exc |-> NoneText]
    /\ UNCHANGED <<priorities, users,
                 preferences, sent_notifications, now, app, events, csv_file, task_tracker, login_dialog, user_activity, exited, task_row_to_id, task_table>>

NoneStatus == -1

PriorityMatches(t) ==
    SelectSeq(priorities,
              LAMBDA p : p.name = t.priority /\ p.user_id = t.user_id)

ListRow(t, color) ==
    [id |-> t.id, name |-> t.name, due_date |-> t.due_date,
     priority |-> t.priority, category |-> t.category, status |-> t.status,
     color |-> color]

(* LEFT JOIN priorities: one output row per matching priority row, or one  *)
(* row with a NULL color when none matches.                                *)
JoinedRows(t) ==
    LET m == PriorityMatches(t)
    IN  IF m = <<>> THEN << ListRow(t, NoneText) >>
        ELSE [k \in 1..Len(m) |-> ListRow(t, m[k].color)]

RECURSIVE LeftJoin(_)
LeftJoin(ts) ==
    IF ts = <<>> THEN <<>> ELSE JoinedRows(Head(ts)) \o LeftJoin(Tail(ts))

(* Variant: the default status lists active tasks only.                    *)
list_tasks_ActiveOnly(user_id, status) ==
    LeftJoin(SelectSeq(tasks,
        LAMBDA t : /\ t.user_id = user_id
                   /\ IF status = NoneStatus
                      THEN t.status = STATUS_ACTIVE
                      ELSE t.status = status))

list_tasks(user_id, status) ==
    LeftJoin(SelectSeq(tasks,
        LAMBDA t : /\ t.user_id = user_id
                   /\ IF status = NoneStatus
                      THEN t.status \in {STATUS_ACTIVE, STATUS_COMPLETED}
                      ELSE t.status = status))

(* One line of the CSV file as csv.reader yields it: a sequence of fields.  *)
HeaderRow == << "Name", "Due Date", "Priority", "Category", "Created At" >>

CsvRow(name, due_date, priority, category) ==
    << name, due_date, priority, category, "2025-01-01 00:00:00" >>

(* Rows of full width, and rows that lack the last field.                  *)
CsvDataRows ==
    { CsvRow(n, d, p, c) : n \in TaskNames, d \in DueDates,
                           p \in PriorityNames, c \in Categories }
    \cup { << n, d, p, c >> : n \in ValidTaskNames, d \in DueDates,
                             p \in PriorityNames, c \in Categories }

RECURSIVE SeqsUpTo(_, _)
SeqsUpTo(S, n) ==
    IF n = 0 THEN { <<>> }
    ELSE LET shorter == SeqsUpTo(S, n - 1)
         IN  shorter \cup { Append(q, x) : q \in shorter, x \in S }

CsvFiles == { <<>> } \cup { <<HeaderRow>> \o b : b \in SeqsUpTo(CsvDataRows, MaxFileRows) }

(* The loop of import_tasks over the rows after the header: the table with  *)
(* the rows inserted so far, or the row whose name failed validation.       *)
RECURSIVE ImportRows(_, _, _)
ImportRows(tbl, rows, user_id) ==
    IF rows = <<>> THEN [raised |-> FALSE, tbl |-> tbl]
    ELSE LET row == Head(rows)
         IN  IF Len(row) >= CsvMinFields
             THEN IF ~ is_valid_task_name(row[1])
                  THEN [raised |-> TRUE, tbl |-> tbl]
                  ELSE ImportRows(
                         Append(tbl, TaskRow(NextTaskId(tbl), user_id, row[1],
                                             row[2], row[3], row[4],
                                             STATUS_ACTIVE)),
                         Tail(rows), user_id)
             ELSE ImportRows(tbl, Tail(rows), user_id)

import_tasks(file, user_id) ==
    LET body == IF file = <<>> THEN <<>> ELSE Tail(file)
        r == ImportRows(tasks, body, user_id)
    IN  /\ Len(tasks) + Len(body) <= MaxTasks
        /\ IF r.raised
           THEN /\ tasks' = tasks
                /\ last' = [op |-> "import_tasks",
                            file |-> file, exc |-> NoneText,
                            ret |-> "Import failed"]
           ELSE /\ tasks' = r.tbl
                /\ last' = [op |-> "import_tasks",
                            file |-> file, exc |-> NoneText,
                            ret |-> "Import successful"]
        /\ UNCHANGED <<priorities, users,
                 preferences, sent_notifications, now, app, events, csv_file, task_tracker, login_dialog, user_activity, exited, task_row_to_id, task_table>>

(* ---------------------------------------------------------------------- *)
(* Search (TaskManager.search_tasks)                                       *)
(* ---------------------------------------------------------------------- *)
(* Folding of the ASCII letters of the search alphabet, as SQLite's LIKE   *)
(* and re.IGNORECASE fold them.                                            *)
FoldChar(c) ==
    CASE c = "A" -> "a"
      [] c = "B" -> "b"
      [] c = "M" -> "m"
      [] c = "X" -> "x"
      [] OTHER -> c

(* SQLite's LIKE: % matches any run of characters, _ any one character,    *)
(* every other character matches itself, ASCII letters without regard to   *)
(* case.                                                                   *)
RECURSIVE Like(_, _)
Like(pattern, s) ==
    IF pattern = <<>> THEN s = <<>>
    ELSE IF Head(pattern) = "%"
         THEN Like(Tail(pattern), s) \/ (s # <<>> /\ Like(pattern, Tail(s)))
         ELSE /\ s # <<>>
              /\ \/ Head(pattern) = "_"
                 \/ FoldChar(Head(pattern)) = FoldChar(Head(s))
              /\ Like(Tail(pattern), Tail(s))

(* re.compile(expr): the search alphabet holds one character that is not  *)
(* a literal in a regular expression, "(", and a pattern holding it does   *)
(* not compile (unbalanced parenthesis).                                   *)
RegexCompiles(expr) == \A i \in 1..Len(expr) : expr[i] # "("

(* reg.search(item) for a pattern of literal characters: the pattern       *)
(* occurs somewhere in the item, letters folded under re.IGNORECASE.       *)
regexp(expr, item, match_case) ==
    \E k \in 0..(Len(item) - Len(expr)) :
        \A i \in 1..Len(expr) :
            IF match_case THEN item[k + i] = expr[i]
            ELSE FoldChar(item[k + i]) = FoldChar(expr[i])

(* The `?` placeholders of the non-regex query: one for user_id, then one  *)
(* for t.name LIKE ?, or four for the clause                               *)
(* (t.name LIKE ? OR t.name LIKE ? OR t.name LIKE ? OR t.name = ?).        *)
Placeholders(whole_word) == IF whole_word THEN 5 ELSE 2

(* The list bound to them (the value for user_id comes first).             *)
Parameters(user_id, text, whole_word) ==
    IF whole_word
    THEN << user_id, <<"%">> \o text \o <<"%">>, text \o <<" ", "%">>,
            <<"%", " ">> \o text, <<"%", " ">> \o text \o <<" ", "%">>, text >>
    ELSE << user_id, <<"%">> \o text \o <<"%">> >>

(* The name condition of the non-regex query over bound parameters.  The   *)
(* COLLATE RTRIM that match_case appends follows `t.status IN (1, 2)` and  *)
(* so leaves the comparisons of t.name as they are.                        *)
NameClause(name, parameters, whole_word) ==
    IF whole_word
    THEN \/ Like(parameters[2], name)
         \/ Like(parameters[3], name)
         \/ Like(parameters[4], name)
         \/ name = parameters[5]
    ELSE Like(parameters[2], name)

(* Variant: the query leaves out `t.user_id = ?`.                          *)
search_tasks_AnyUser(user_id, text, match_case, whole_word, use_regex) ==
    IF use_regex
    THEN IF ~ RegexCompiles(text) THEN <<>>
         ELSE LeftJoin(SelectSeq(tasks,
                LAMBDA t : /\ regexp(text, t.name, match_case)
                           /\ t.status \in {STATUS_ACTIVE, STATUS_COMPLETED}))
    ELSE LET parameters == Parameters(user_id, text, whole_word)
         IN  IF Len(parameters) # Placeholders(whole_word) THEN <<>>
             ELSE LeftJoin(SelectSeq(tasks,
                    LAMBDA t : /\ NameClause(t.name, parameters, whole_word)
                               /\ t.status \in {STATUS_ACTIVE,
                                                STATUS_COMPLETED}))

(* The rows search_tasks returns.  cursor.execute raises when the list of  *)
(* parameters and the placeholders differ in number (ProgrammingError) or  *)
(* when the REGEXP function raises (OperationalError); the method catches  *)
(* both and returns [].                                                    *)
search_tasks(user_id, text, match_case, whole_word, use_regex) ==
    IF use_regex
    THEN IF ~ RegexCompiles(text) THEN <<>>
         ELSE LeftJoin(SelectSeq(tasks,
                LAMBDA t : /\ t.user_id = user_id
                           /\ regexp(text, t.name, match_case)
                           /\ t.status \in {STATUS_ACTIVE, STATUS_COMPLETED}))
    ELSE LET parameters == Parameters(user_id, text, whole_word)
         IN  IF Len(parameters) # Placeholders(whole_word) THEN <<>>
             ELSE LeftJoin(SelectSeq(tasks,
                    LAMBDA t : /\ t.user_id = parameters[1]
                               /\ NameClause(t.name, parameters, whole_word)
                               /\ t.status \in {STATUS_ACTIVE,
                                                STATUS_COMPLETED}))

(* ---------------------------------------------------------------------- *)
(* Clock and calendar (datetime)                                           *)
(* ---------------------------------------------------------------------- *)
(* A datetime is a number of seconds since 2024-01-01 00:00:00, a Monday;  *)
(* a date is a number of days since 2024-01-01.  No last-sent time is      *)
(* NoneTime.                                                               *)
NoneTime == -1
Days(n) == n * 24 * 3600

(* datetime.date(): the day the instant falls on.                          *)
DateOf(t) == t \div Days(1)

IsLeapYear(y) == (y % 4 = 0 /\ y % 100 # 0) \/ y % 400 = 0

DaysInYear(y) == IF IsLeapYear(y) THEN 366 ELSE 365

DaysInMonth(y, m) ==
    IF m = 2 THEN (IF IsLeapYear(y) THEN 29 ELSE 28)
    ELSE IF m \in {4, 6, 9, 11} THEN 30 ELSE 31

(* Year and day of the year (from 1) of the day d days after y-01-01.      *)
RECURSIVE YearAndOrdinal(_, _)
YearAndOrdinal(y, d) ==
    IF d < DaysInYear(y) THEN [year |-> y, ordinal |-> d + 1]
    ELSE YearAndOrdinal(y + 1, d - DaysInYear(y))

RECURSIVE MonthAndDay(_, _, _)
MonthAndDay(y, m, ordinal) ==
    IF ordinal <= DaysInMonth(y, m) THEN [month |-> m, day |-> ordinal]
    ELSE MonthAndDay(y, m + 1, ordinal - DaysInMonth(y, m))

YearOf(date) == YearAndOrdinal(2024, date).year

OrdinalOf(date) == YearAndOrdinal(2024, date).ordinal

MonthOf(date) == MonthAndDay(YearOf(date), 1, OrdinalOf(date)).month

DayOfMonth(date) == MonthAndDay(YearOf(date), 1, OrdinalOf(date)).day

(* date.isoweekday(): Monday is 1.                                         *)
IsoWeekday(date) == (date % 7) + 1

(* The number of ISO weeks of the year that `date` falls in, when date - k *)
(* is its first of January: 53 when that day is a Thursday, or a Wednesday *)
(* of a leap year.                                                         *)
IsoWeeksInYear(y, jan1) ==
    IF IsoWeekday(jan1) = 4 \/ (IsoWeekday(jan1) = 3 /\ IsLeapYear(y))
    THEN 53 ELSE 52

(* date.isocalendar()[1]: the ISO 8601 week number.                        *)
IsoWeek(date) ==
    LET y == YearOf(date)
        jan1 == date - (OrdinalOf(date) - 1)
        w == (OrdinalOf(date) - IsoWeekday(date) + 10) \div 7
    IN  IF w < 1 THEN IsoWeeksInYear(y - 1, jan1 - DaysInYear(y - 1))
        ELSE IF w > IsoWeeksInYear(y, jan1) THEN 1
        ELSE w

Pad2(n) == IF n < 10 THEN "0" \o ToString(n) ELSE ToString(n)

(* date.strftime("%Y-%m-%d")                                               *)
strftime(date) ==
    ToString(YearOf(date)) \o "-" \o Pad2(MonthOf(date)) \o "-"
        \o Pad2(DayOfMonth(date))

(* Instants of the clock: midnight of 2024-01-01, half an hour, one hour   *)
(* and one and a half hours later, and the same on the next day; for the   *)
(* scheduler also one and two weeks later and 2025-01-01.                  *)
PollInstants == { 0, 1800, 3600, 5400, Days(1), Days(1) + 1800 }
NotifyInstants == { 0, 1800, 3600, Days(1), Days(7), Days(14), Days(366) }
PollDates == { "2024-01-01", "2024-01-02" }
DueNames == { <<"a">>, <<"b">> }

(* ---------------------------------------------------------------------- *)
(* Due tasks (TaskManager.get_due_tasks)                                   *)
(* ---------------------------------------------------------------------- *)
NamesOf(rows) == [k \in 1..Len(rows) |-> rows[k].name]

(* Variant: the query leaves out `AND status = ?`.                         *)
get_due_tasks_AnyStatus ==
    LET today == strftime(DateOf(now))
    IN  NamesOf(SelectSeq(tasks, LAMBDA t : t.due_date = today))

get_due_tasks ==
    LET today == strftime(DateOf(now))
    IN  NamesOf(SelectSeq(tasks,
            LAMBDA t : t.due_date = today /\ t.status = STATUS_ACTIVE))

(* The clock moves on to a later instant.                                  *)
advance_clock(t) ==
    /\ t > now
    /\ now' = t
    /\ last' = [op |-> "advance_clock"]
    /\ UNCHANGED <<tasks, priorities, users,
                 preferences, sent_notifications, app, events, csv_file, task_tracker, login_dialog, user_activity, exited, task_row_to_id, task_table>>

(* ---------------------------------------------------------------------- *)
(* Preference store                                                        *)
(* ---------------------------------------------------------------------- *)
(* Two programs of the repository drive a scheduler: project.py with       *)
(* ui/main_window.py, services/notification.py, helpers/utils.py and       *)
(* models/task_manager.py ("project"), and main.py with                    *)
(* notification_manager.py, utils.py and task_manager.py ("legacy").  The  *)
(* variable `app` says which one is running.                               *)
Apps == { "project", "legacy" }

(* The user main_window.py builds its NotificationManager for.             *)
SessionUser == 1

PrefRow(user_id, key, value) ==
    [user_id |-> user_id, key |-> key, value |-> value]

(* REPLACE INTO preferences: the column `key` is UNIQUE, so the row that   *)
(* holds the key, whichever user it belongs to, is deleted and the new row *)
(* inserted.                                                               *)
ReplaceInto(tbl, row) ==
    Append(SelectSeq(tbl, LAMBDA r : r.key # row.key), row)

(* The loop of save_preferences over preferences.items(); a dict is a      *)
(* sequence of <<key, value>> pairs in insertion order.                    *)
RECURSIVE SaveItems(_, _, _)
SaveItems(tbl, user_id, items) ==
    IF items = <<>> THEN tbl
    ELSE SaveItems(ReplaceInto(tbl, PrefRow(user_id, Head(items)[1],
                                            Head(items)[2])),
                   user_id, Tail(items))

(* The dict built from the rows of a SELECT key, value.                    *)
DictOf(rows) ==
    [k \in { rows[i].key : i \in 1..Len(rows) } |->
        LET i == CHOOSE j \in 1..Len(rows) :
                    /\ rows[j].key = k
                    /\ \A h \in (j + 1)..Len(rows) : rows[h].key # k
        IN  rows[i].value]

get_preferences(user_id) ==
    DictOf(SelectSeq(preferences, LAMBDA r : r.user_id = user_id))

(* task_manager.py: the table has no user_id column.                       *)
legacy_get_preferences == DictOf(preferences)

(* dict.get(key, default)                                                  *)
DictGet(d, key, default) == IF key \in DOMAIN d THEN d[key] ELSE default

save_preferences(user_id, items) ==
    /\ preferences' = SaveItems(preferences, user_id, items)
    /\ last' = [op |-> "save_preferences", user_id |-> user_id,
                items |-> items, ret |-> NoneText]
    /\ UNCHANGED <<tasks, priorities, users,
                 sent_notifications, now, app, events, csv_file, task_tracker, login_dialog, user_activity, exited, task_row_to_id, task_table>>

legacy_save_preferences(items) ==
    /\ preferences' = SaveItems(preferences, NoneId, items)
    /\ last' = [op |-> "save_preferences", user_id |-> NoneId,
                items |-> items, ret |-> NoneText]
    /\ UNCHANGED <<tasks, priorities, users,
                 sent_notifications, now, app, events, csv_file, task_tracker, login_dialog, user_activity, exited, task_row_to_id, task_table>>

(* ---------------------------------------------------------------------- *)
(* Notification scheduler (NotificationManager)                            *)
(* ---------------------------------------------------------------------- *)
SecondsPerHour == 3600

(* A Python call binds its arguments unless a keyword names a parameter    *)
(* that a positional argument already filled ("got multiple values for     *)
(* argument"), there are more positional arguments than parameters, or one *)
(* of the first `required` parameters stays unfilled; otherwise the call   *)
(* raises TypeError before the body runs.                                  *)
CallBinds(params, required, npos, keywords) ==
    /\ npos <= Len(params)
    /\ \A i \in 1..npos : params[i] \notin keywords
    /\ \A i \in 1..required : i <= npos \/ params[i] \in keywords

(* Parameter lists (after self) and how many of them have no default.      *)
SendNotificationParams ==
    << "notification_id", "title", "message", "frequency", "timeout",
       "app_name" >>

LegacySendNotificationParams ==
    << "notification_id", "title", "message", "task_manager", "frequency",
       "timeout", "app_name" >>

SendWindowsNotificationParams ==
    << "title", "message", "task_manager", "timeout", "app_name" >>

GetPreferencesParams == << "user_id" >>

(* The delivery channel (plyer's notification.notify) delivers or raises.  *)
Channels == { "ok", "raises" }

LastSent(sent, notification_id) ==
    IF notification_id \in DOMAIN sent THEN sent[notification_id]
    ELSE NoneTime

(* The decision of should_send_notification from the last-sent time and    *)
(* the current time.  A frequency without a branch of its own falls        *)
(* through to the final `return True`.                                     *)
should_send(last_sent_time, current_time, frequency) ==
    IF last_sent_time # NoneTime
    THEN CASE frequency = "daily" ->
                DateOf(last_sent_time) # DateOf(current_time)
           [] frequency = "hourly" ->
                current_time - last_sent_time >= SecondsPerHour
           [] frequency = "weekly" ->
                IsoWeek(DateOf(current_time))
                    # IsoWeek(DateOf(last_sent_time))
           [] frequency = "immediate" -> TRUE
           [] OTHER -> TRUE
    ELSE TRUE

should_send_notification(sent, notification_id, frequency) ==
    should_send(LastSent(sent, notification_id), now, frequency)

(* self.sent_notifications[notification_id] = datetime.datetime.now()      *)
update_last_sent_time(sent, notification_id) ==
    [x \in DOMAIN sent \cup { notification_id } |->
        IF x = notification_id THEN now ELSE sent[x]]

(* helpers/utils.py: task_manager.get_preferences() is called without the  *)
(* user_id that models/task_manager.py requires; the TypeError is caught   *)
(* and the function returns False.                                         *)
send_windows_notification(channel) ==
    IF ~ CallBinds(GetPreferencesParams, 1, 0, {}) THEN FALSE
    ELSE /\ DictGet(get_preferences(NoneId),
                    "enable_notifications", "True") = "True"
         /\ channel = "ok"

(* utils.py with task_manager.py: get_preferences() takes no argument.     *)
legacy_send_windows_notification(channel) ==
    /\ DictGet(legacy_get_preferences, "enable_notifications", "True") = "True"
    /\ channel = "ok"

(* What services/notification.py's send_notification returns, given the    *)
(* record of last-sent times at the call.  The call                        *)
(* send_windows_notification(title, message, self.task_manager,            *)
(* self.user_id, timeout=timeout, app_name=app_name) passes four           *)
(* positional arguments and the keywords timeout and app_name; when it     *)
(* does not bind, the TypeError is caught by `except Exception`.           *)
SendSucceeds(sent, notification_id, title, message, frequency, channel) ==
    IF title = "" \/ message = "" THEN FALSE
    ELSE IF /\ DictGet(get_preferences(SessionUser),
                       "enable_notifications", "True") = "True"
            /\ should_send_notification(sent, notification_id, frequency)
         THEN IF ~ CallBinds(SendWindowsNotificationParams, 3, 4,
                             { "timeout", "app_name" })
              THEN FALSE
              ELSE send_windows_notification(channel)
         ELSE FALSE

(* notification_manager.py: the channel is called with five positional     *)
(* arguments.                                                              *)
LegacySendSucceeds(sent, notification_id, title, message, frequency, channel) ==
    IF title = "" \/ message = "" THEN FALSE
    ELSE IF /\ DictGet(legacy_get_preferences,
                       "enable_notifications", "True") = "True"
            /\ should_send_notification(sent, notification_id, frequency)
         THEN IF ~ CallBinds(SendWindowsNotificationParams, 3, 5, {})
              THEN FALSE
              ELSE legacy_send_windows_notification(channel)
         ELSE FALSE

(* The e-mail leg of services/notification.py: after a delivery, with an   *)
(* address on file and email_notification not "False", send_email calls    *)
(* connect_smtp outside its try block; when that raises, send_notification *)
(* catches the exception and returns False, the last-sent time already     *)
(* updated.                                                                *)
EmailRaises(smtp) ==
    /\ \E i \in 1..Len(users) :
          users[i].id = SessionUser /\ users[i].email # NoneText
    /\ DictGet(get_preferences(SessionUser), "email_notification", "True")
          = "True"
    /\ smtp = "raises"

SendRecord(notification_id, frequency, title, message, channel, enabled, success, ret) ==
    [op |-> "send_notification", id |-> notification_id,
     frequency |-> frequency, blank |-> (title = "" \/ message = ""),
     channel |-> channel, enabled |-> enabled,
     open |-> should_send_notification(sent_notifications, notification_id,
                                       frequency),
     prev |-> LastSent(sent_notifications, notification_id),
     delivered |-> success, ret |-> ret]

(* Variant: the last-sent time is written before the channel is tried.     *)
send_notification_RecordsAttempt(notification_id, title, message, frequency, channel, smtp) ==
    LET success == SendSucceeds(sent_notifications, notification_id, title,
                                message, frequency, channel)
        enabled == DictGet(get_preferences(SessionUser),
                           "enable_notifications", "True") = "True"
    IN  /\ sent_notifications' =
              IF title # "" /\ message # ""
              THEN update_last_sent_time(sent_notifications, notification_id)
              ELSE sent_notifications
        /\ last' = SendRecord(notification_id, frequency, title, message,
                              channel, enabled, success,
                              success /\ ~ EmailRaises(smtp))
        /\ UNCHANGED <<tasks, priorities, users,
                     preferences, now, app, events, csv_file, task_tracker, login_dialog, user_activity, exited, task_row_to_id, task_table>>

send_notification(notification_id, title, message, frequency, channel, smtp) ==
    LET success == SendSucceeds(sent_notifications, notification_id, title,
                                message, frequency, channel)
        enabled == DictGet(get_preferences(SessionUser),
                           "enable_notifications", "True") = "True"
    IN  /\ sent_notifications' =
              IF success
              THEN update_last_sent_time(sent_notifications, notification_id)
              ELSE sent_notifications
        /\ last' = SendRecord(notification_id, frequency, title, message,
                              channel, enabled, success,
                              success /\ ~ EmailRaises(smtp))
        /\ UNCHANGED <<tasks, priorities, users,
                     preferences, now, app, events, csv_file, task_tracker, login_dialog, user_activity, exited, task_row_to_id, task_table>>

legacy_send_notification(notification_id, title, message, frequency, channel) ==
    LET success == LegacySendSucceeds(sent_notifications, notification_id,
                                      title, message, frequency, channel)
        enabled == DictGet(legacy_get_preferences,
                           "enable_notifications", "True") = "True"
    IN  /\ sent_notifications' =
              IF success
              THEN update_last_sent_time(sent_notifications, notification_id)
              ELSE sent_notifications
        /\ last' = SendRecord(notification_id, frequency, title, message,
                              channel, enabled, success, success)
        /\ UNCHANGED <<tasks, priorities, users,
                     preferences, now, app, events, csv_file, task_tracker, login_dialog, user_activity, exited, task_row_to_id, task_table>>

(* ---------------------------------------------------------------------- *)
(* Poller (TaskTracker) and its slot (notify_due_tasks)                    *)
(* ---------------------------------------------------------------------- *)
RECURSIVE Join(_)
Join(chars) == IF chars = <<>> THEN "" ELSE Head(chars) \o Join(Tail(chars))

(* f"task_due_{task}"                                                      *)
NotificationId(task) == "task_due_" \o Join(task)

(* One pass of the loop of TaskTracker.run after its sleep: the signal     *)
(* notify_due_tasks is emitted with the due names when there are any.  The *)
(* signal crosses threads, so the slot runs later, from the queue.         *)
RunPass ==
    /\ Len(events) < MaxEvents
    /\ events' = IF get_due_tasks # <<>> THEN Append(events, get_due_tasks)
                 ELSE events
    /\ last' = [op |-> "run", found |-> Len(get_due_tasks)]
    /\ UNCHANGED <<tasks, priorities, users, preferences, sent_notifications, now, app, csv_file, login_dialog, user_activity, exited, task_row_to_id, task_table>>

run ==
    /\ RunPass
    /\ UNCHANGED task_tracker

(* ---------------------------------------------------------------------- *)
(* models/task_tracker.py: the poller as a thread                          *)
(* ---------------------------------------------------------------------- *)
(* task_tracker.thread is the QThread's state, .running the attribute that *)
(* stop() assigns, .stop the position of a caller inside stop().           *)

(* QThread.start(): a thread that is not running begins to execute run.    *)
start ==
    /\ task_tracker.thread # "running"
    /\ task_tracker' = [task_tracker EXCEPT !.thread = "running"]
    /\ last' = [op |-> "start"]
    /\ UNCHANGED <<tasks, priorities, users, preferences, sent_notifications, now, app, events, csv_file, login_dialog, user_activity, exited, task_row_to_id, task_table>>

(* Variant: the loop condition reads self.running and run returns.         *)
TaskTracker_run_ReadsRunning ==
    /\ task_tracker.thread = "running"
    /\ IF task_tracker.running = "False"
       THEN /\ task_tracker' = [task_tracker EXCEPT !.thread = "finished"]
            /\ last' = [op |-> "run", found |-> 0]
            /\ UNCHANGED <<tasks, priorities, users, preferences, sent_notifications, now, app, events, csv_file, login_dialog, user_activity, exited, task_row_to_id, task_table>>
       ELSE RunPass /\ UNCHANGED task_tracker

(* while True: one pass; nothing in the body breaks, returns or raises.    *)
TaskTracker_run ==
    /\ task_tracker.thread = "running"
    /\ RunPass
    /\ UNCHANGED task_tracker

(* stop(), first statement: self.running = False; the caller then enters   *)
(* self.wait().                                                            *)
stop ==
    /\ task_tracker.stop # "waiting"
    /\ task_tracker' = [task_tracker EXCEPT !.running = "False", !.stop = "waiting"]
    /\ last' = [op |-> "stop"]
    /\ UNCHANGED <<tasks, priorities, users, preferences, sent_notifications, now, app, events, csv_file, login_dialog, user_activity, exited, task_row_to_id, task_table>>

(* QThread.wait() returns once the thread has finished, or at once when it *)
(* was never started.                                                      *)
stop_returns ==
    /\ task_tracker.stop = "waiting"
    /\ task_tracker.thread # "running"
    /\ task_tracker' = [task_tracker EXCEPT !.stop = "returned"]
    /\ last' = [op |-> "stop_returns"]
    /\ UNCHANGED <<tasks, priorities, users, preferences, sent_notifications, now, app, events, csv_file, login_dialog, user_activity, exited, task_row_to_id, task_table>>

(* The loop of the slot over the names, each sent with frequency "hourly": *)
(* the last-sent times after it, the names delivered, and for each name in *)
(* turn what should_send_notification answered at its call.                *)
RECURSIVE NotifyLoop(_, _, _)
NotifyLoop(sent, names, channel) ==
    IF names = <<>> THEN [sent |-> sent, delivered |-> <<>>, gate |-> <<>>]
    ELSE LET id == NotificationId(Head(names))
             success == SendSucceeds(sent, id, "Task Due", "Task is due today.",
                                     "hourly", channel)
             rest == NotifyLoop(IF success
                                THEN update_last_sent_time(sent, id)
                                ELSE sent,
                                Tail(names), channel)
         IN  [sent |-> rest.sent,
              delivered |-> IF success
                            THEN <<Head(names)>> \o rest.delivered
                            ELSE rest.delivered,
              gate |-> <<should_send_notification(sent, id, "hourly")>> \o rest.gate]

RECURSIVE LegacyNotifyLoop(_, _, _)
LegacyNotifyLoop(sent, names, channel) ==
    IF names = <<>> THEN [sent |-> sent, delivered |-> <<>>, gate |-> <<>>]
    ELSE LET id == NotificationId(Head(names))
             success == LegacySendSucceeds(sent, id, "Task Due",
                                           "Task is due today.", "hourly",
                                           channel)
             rest == LegacyNotifyLoop(IF success
                                      THEN update_last_sent_time(sent, id)
                                      ELSE sent,
                                      Tail(names), channel)
         IN  [sent |-> rest.sent,
              delivered |-> IF success
                            THEN <<Head(names)>> \o rest.delivered
                            ELSE rest.delivered,
              gate |-> <<should_send_notification(sent, id, "hourly")>> \o rest.gate]

(* ui/main_window.py: the slot calls                                       *)
(* send_notification(notification_id, "Task Due", message,                 *)
(* self.task_manager, frequency="hourly") on services/notification.py's    *)
(* manager: four positional arguments and the keyword frequency.  When the *)
(* call does not bind, the TypeError leaves the slot at the first name.    *)
notify_due_tasks(channel) ==
    /\ events # <<>>
    /\ LET binds == CallBinds(SendNotificationParams, 3, 4, { "frequency" })
           r == IF binds
                THEN NotifyLoop(sent_notifications, Head(events), channel)
                ELSE [sent |-> sent_notifications, delivered |-> <<>>, gate |-> <<>>]
       IN  /\ sent_notifications' = r.sent
           /\ last' = [op |-> "notify_due_tasks", tasks |-> Head(events),
                       exc |-> IF binds THEN NoneText ELSE "TypeError",
                       delivered |-> r.delivered, gate |-> r.gate]
    /\ events' = Tail(events)
    /\ UNCHANGED <<tasks, priorities, users, preferences, now, app, csv_file, task_tracker, login_dialog, user_activity, exited, task_row_to_id, task_table>>

(* main.py: the same call on notification_manager.py's manager, whose      *)
(* fourth parameter is task_manager.                                       *)
legacy_notify_due_tasks(channel) ==
    /\ events # <<>>
    /\ LET binds == CallBinds(LegacySendNotificationParams, 4, 4,
                              { "frequency" })
           r == IF binds
                THEN LegacyNotifyLoop(sent_notifications, Head(events),
                                      channel)
                ELSE [sent |-> sent_notifications, delivered |-> <<>>, gate |-> <<>>]
       IN  /\ sent_notifications' = r.sent
           /\ last' = [op |-> "notify_due_tasks", tasks |-> Head(events),
                       exc |-> IF binds THEN NoneText ELSE "TypeError",
                       delivered |-> r.delivered, gate |-> r.gate]
    /\ events' = Tail(events)
    /\ UNCHANGED <<tasks, priorities, users, preferences, now, app, csv_file, task_tracker, login_dialog, user_activity, exited, task_row_to_id, task_table>>

(* ---------------------------------------------------------------------- *)
(* CSV export (TaskManager.export_tasks)                                   *)
(* ---------------------------------------------------------------------- *)
(* csv.writer writes None as the empty field and any other text as it is   *)
(* (quoted where needed); csv.reader gives the text back.                  *)
CsvField(v) == IF v = NoneText THEN "" ELSE v

(* The file written by export_tasks: the header and one line per task of   *)
(* the user with status 1 or 2, in table order.                            *)
export_tasks(user_id) ==
    LET rows == SelectSeq(tasks, LAMBDA t : /\ t.user_id = user_id
                                            /\ t.status \in {STATUS_ACTIVE,
                                                             STATUS_COMPLETED})
    IN  /\ csv_file' = <<HeaderRow>> \o
              [k \in 1..Len(rows) |->
                  CsvRow(rows[k].name, CsvField(rows[k].due_date),
                         CsvField(rows[k].priority),
                         CsvField(rows[k].category))]
        /\ last' = [op |-> "export_tasks", user_id |-> user_id,
                    ret |-> "Tasks exported successfully."]
        /\ UNCHANGED <<tasks, priorities, users, preferences,
                     sent_notifications, now, app, events, task_tracker, login_dialog, user_activity, exited, task_row_to_id, task_table>>

(* ---------------------------------------------------------------------- *)
(* Catalog store                                                           *)
(* ---------------------------------------------------------------------- *)
priority_exists(priority_name) ==
    \E i \in 1..Len(priorities) : priorities[i].name = priority_name

add_priority(priority_name, color, user_id) ==
    /\ IF priority_exists(priority_name)
       THEN /\ priorities' = priorities
            /\ last' = [op |-> "add_priority", exc |-> NoneText,
                        ret |-> "already exists"]
       ELSE /\ priorities' = Append(priorities,
                   [id |-> Len(priorities) + 1, user_id |-> user_id,
                    name |-> priority_name, color |-> color,
                    status |-> STATUS_ACTIVE])
            /\ last' = [op |-> "add_priority", exc |-> NoneText,
                        ret |-> "added successfully"]
    /\ UNCHANGED <<tasks, users,
                 preferences, sent_notifications, now, app, events, csv_file, task_tracker, login_dialog, user_activity, exited, task_row_to_id, task_table>>

(* ---------------------------------------------------------------------- *)
(* project.py: entry-point wrappers                                        *)
(* ---------------------------------------------------------------------- *)
(* Where an exception is raised inside a wrapper's try block: nowhere, in  *)
(* TaskManager() (validate_environment_variables raises ValueError), or in *)
(* the wrapped method with an exception the method does not catch itself.  *)
Faults == { "none", "TaskManager()", "call" }

(* str(e) of the raised exception.                                         *)
ErrorTexts == { "Missing required environment variables: DATABASE_FILE",
                "unexpected failure" }

WrapperRecord(name, args, fault, ret) ==
    [op |-> name, args |-> args, fault |-> fault, exc |-> NoneText, ret |-> ret]

project_create_user(username, password, fault, text) ==
    IF fault = "none"
    THEN create_user(username, password)
    ELSE /\ last' = WrapperRecord("project.create_user", <<username, password>>, fault, text)
         /\ UNCHANGED <<tasks, priorities, users, preferences, sent_notifications, now, app, events, csv_file, task_tracker, login_dialog, user_activity, exited, task_row_to_id, task_table>>

(* Variant: TaskManager() is built outside the try block.                  *)
login_user_ConstructorEscapes(username, password, fault) ==
    /\ last' = IF fault = "TaskManager()"
               THEN [op |-> "login_user", args |-> <<username, password>>, fault |-> fault, exc |-> "ValueError", ret |-> NoneText]
               ELSE WrapperRecord("login_user", <<username, password>>, fault, IF fault = "none" THEN verify_user(username, password) ELSE << FALSE, NoneId >>)
    /\ UNCHANGED <<tasks, priorities, users, preferences, sent_notifications, now, app, events, csv_file, task_tracker, login_dialog, user_activity, exited, task_row_to_id, task_table>>

login_user(username, password, fault) ==
    /\ last' = WrapperRecord("login_user", <<username, password>>, fault, IF fault = "none" THEN verify_user(username, password) ELSE << FALSE, NoneId >>)
    /\ UNCHANGED <<tasks, priorities, users, preferences, sent_notifications, now, app, events, csv_file, task_tracker, login_dialog, user_activity, exited, task_row_to_id, task_table>>

fetch_tasks(user_id, fault) ==
    /\ last' = WrapperRecord("fetch_tasks", <<user_id>>, fault, IF fault = "none" THEN list_tasks(user_id, NoneStatus) ELSE <<>>)
    /\ UNCHANGED <<tasks, priorities, users, preferences, sent_notifications, now, app, events, csv_file, task_tracker, login_dialog, user_activity, exited, task_row_to_id, task_table>>

(* ---------------------------------------------------------------------- *)
(* ui/main_window.py: the task table and task_row_to_id                    *)
(* ---------------------------------------------------------------------- *)
(* task_row_to_id is the module-level dict, a function from its keys;      *)
(* task_table is the sequence of the table's rows, row 0 first, each with  *)
(* the texts of its four cells (NoneText where a cell has no item).        *)
TableRow(name, due_date, priority, category) ==
    [name |-> name, due_date |-> due_date, priority |-> priority, category |-> category]

EmptyRow == TableRow(NoneText, NoneText, NoneText, NoneText)

(* QTableWidget.setRowCount: rows beyond n are dropped, missing rows are   *)
(* appended empty, the others keep their items.                            *)
SetRowCount(table, n) ==
    IF n <= Len(table) THEN SubSeq(table, 1, n)
    ELSE table \o [k \in 1..(n - Len(table)) |-> EmptyRow]

(* d[key] = value                                                          *)
DictSet(d, key, value) ==
    [x \in DOMAIN d \cup { key } |-> IF x = key THEN value ELSE d[x]]

(* The columns of a row of list_tasks, in SELECT order, and the names      *)
(* update_task_list unpacks a row into.                                    *)
RowColumns == << "id", "name", "due_date", "priority", "category", "status", "color" >>
UnpackTargets == << "task_id", "name", "due_date", "priority", "category", "color" >>

(* a, b, ... = task binds only when the tuple has as many values as there  *)
(* are targets; otherwise ValueError.                                      *)
Unpacks(row) == Cardinality(DOMAIN row) = Len(UnpackTargets)

(* The value the unpacking binds to a target: the one at its position.     *)
Unpacked(row, target) ==
    row[RowColumns[CHOOSE i \in 1..Len(UnpackTargets) : UnpackTargets[i] = target]]

(* Order of the due-date texts "YYYY-MM-DD": the order of their days.      *)
(* The days of the due dates of the inputs: 2024-01-01, 2024-01-02 and     *)
(* 2025-01-01.                                                             *)
DueDateDays == { 0, 1, 366 }

DateKey(text) == CHOOSE n \in DueDateDays : strftime(n) = text

(* tasks.sort(key=lambda task: task[2]) is stable; comparing None raises   *)
(* TypeError.                                                              *)
SortRaises(rows) ==
    /\ Len(rows) >= 2
    /\ \E k \in 1..Len(rows) : rows[k].due_date = NoneText

RECURSIVE InsertByDueDate(_, _)
InsertByDueDate(sorted, row) ==
    IF sorted = <<>> THEN << row >>
    ELSE IF DateKey(row.due_date) < DateKey(Head(sorted).due_date)
         THEN << row >> \o sorted
         ELSE << Head(sorted) >> \o InsertByDueDate(Tail(sorted), row)

RECURSIVE SortByDueDate(_)
SortByDueDate(rows) ==
    IF rows = <<>> THEN <<>>
    ELSE InsertByDueDate(SortByDueDate(SubSeq(rows, 1, Len(rows) - 1)), rows[Len(rows)])

Reverse(rows) == [k \in 1..Len(rows) |-> rows[Len(rows) + 1 - k]]

(* for row, task in enumerate(tasks): the first row that does not unpack   *)
(* raises, and the except clause of update_task_list ends the method with  *)
(* what was done so far.                                                   *)
RECURSIVE FillRows(_, _, _, _)
FillRows(rows, row, mapping, table) ==
    IF rows = <<>> THEN [task_row_to_id |-> mapping, task_table |-> table]
    ELSE IF ~ Unpacks(Head(rows)) THEN [task_row_to_id |-> mapping, task_table |-> table]
    ELSE FillRows(Tail(rows), row + 1,
                  DictSet(mapping, row, Unpacked(Head(rows), "task_id")),
                  [table EXCEPT ![row + 1] =
                      TableRow(Unpacked(Head(rows), "name"), Unpacked(Head(rows), "due_date"),
                               Unpacked(Head(rows), "priority"), Unpacked(Head(rows), "category"))])

(* update_task_list, given what list_tasks(self.user_id) returned: the     *)
(* dict and the table when the method returns.                             *)
update_task_list(rows, mapping, table) ==
    IF rows = <<>> THEN [task_row_to_id |-> mapping, task_table |-> table]
    ELSE IF SortRaises(rows) THEN [task_row_to_id |-> mapping, task_table |-> table]
    ELSE FillRows(Reverse(SortByDueDate(rows)), 0, <<>>, SetRowCount(table, Len(rows)))

(* MainWindow.add_task, the slot of the Add button.                        *)
MainWindow_add_task(task_name, due_date, priority, category) ==
    IF Strip(task_name) = <<>>
    THEN /\ last' = [op |-> "MainWindow.add_task", name |-> task_name]
         /\ UNCHANGED <<tasks, priorities, users, preferences, sent_notifications, now, app, events, csv_file, task_tracker, login_dialog, user_activity, exited, task_row_to_id, task_table>>
    ELSE /\ TaskManager_add_task(SessionUser, Strip(task_name), due_date, priority, category)
         /\ LET row_position == Len(task_table)
                r == update_task_list(list_tasks(SessionUser, NoneStatus)',
                        DictSet(task_row_to_id, NextTaskId(tasks), row_position),
                        Append(task_table, TableRow(Strip(task_name), due_date, priority, category)))
            IN  /\ task_row_to_id' = r.task_row_to_id
                /\ task_table' = r.task_table

(* MainWindow.remove_selected_task with the rows of the selected items and *)
(* the removal confirmed.                                                  *)
remove_selected_task(selected_rows) ==
    /\ selected_rows # {}
    /\ selected_rows \subseteq 0..(Len(task_table) - 1)
    /\ TaskManager_remove_tasks({ task_row_to_id[row] : row \in selected_rows \cap DOMAIN task_row_to_id })
    /\ LET r == update_task_list(list_tasks(SessionUser, NoneStatus)', task_row_to_id, task_table)
       IN  /\ task_row_to_id' = r.task_row_to_id
           /\ task_table' = r.task_table

(* MainWindow.refresh_task                                                 *)
refresh_task ==
    /\ LET r == update_task_list(list_tasks(SessionUser, NoneStatus), task_row_to_id, task_table)
       IN  /\ task_row_to_id' = r.task_row_to_id
           /\ task_table' = r.task_table
    /\ last' = [op |-> "refresh_task"]
    /\ UNCHANGED <<tasks, priorities, users, preferences, sent_notifications, now, app, events, csv_file, task_tracker, login_dialog, user_activity, exited>>

(* populate_edit_dialog, reached from edit_selected_task once              *)
(* get_task_details found the row, with the dialog accepted.               *)
populate_edit_dialog(task_id, name, due_date, priority, category) ==
    /\ \E i \in 1..Len(tasks) : tasks[i].id = task_id
    /\ TaskManager_update_task(task_id, name, due_date, priority, category)
    /\ LET r == update_task_list(list_tasks(SessionUser, NoneStatus)', task_row_to_id, task_table)
       IN  /\ task_row_to_id' = r.task_row_to_id
           /\ task_table' = r.task_table

(* MainWindow.edit_selected_task: the id is looked up under the row of the *)
(* first selected item; get_task_details(None) finds nothing.              *)
edit_selected_task(row, name, due_date, priority, category) ==
    /\ row \in 0..(Len(task_table) - 1)
    /\ IF row \in DOMAIN task_row_to_id /\ \E i \in 1..Len(tasks) : tasks[i].id = task_row_to_id[row]
       THEN populate_edit_dialog(task_row_to_id[row], name, due_date, priority, category)
       ELSE /\ last' = [op |-> "edit_selected_task", row |-> row]
            /\ UNCHANGED <<tasks, priorities, users, preferences, sent_notifications, now, app, events, csv_file, task_tracker, login_dialog, user_activity, exited, task_row_to_id, task_table>>

(* ---------------------------------------------------------------------- *)
(* ui/dialogs/login_dialog.py                                              *)
(* ---------------------------------------------------------------------- *)
MAX_ATTEMPTS == 3

(* log_user_activity: INSERT INTO user_activity (user_id, type, created_at, *)
(* status); try_login passes the username as user_id.                      *)
ActivityRow(user_id, event_type, status) ==
    [user_id |-> user_id, type |-> event_type, status |-> status]

(* Variant: the empty-field check comes after the failure is counted.      *)
try_login_CountsEmpty(username, password) ==
    /\ ~ exited
    /\ ~ login_dialog.accepted
    /\ Len(user_activity) < MaxActivity
    /\ LET r == verify_user(username, password)
       IN  IF r[1]
           THEN /\ login_dialog' = [login_dialog EXCEPT !.accepted = TRUE, !.user_id = r[2]]
                /\ user_activity' = Append(user_activity, ActivityRow(username, "Login", "Success"))
                /\ preferences' = IF DictGet(get_preferences(r[2]), "has_seen_welcome_message", NoneText) = "True"
                                  THEN preferences
                                  ELSE SaveItems(preferences, r[2], << <<"has_seen_welcome_message", "True">> >>)
                /\ exited' = exited
                /\ last' = [op |-> "try_login", username |-> username, password |-> password, valid_login |-> TRUE]
           ELSE /\ login_dialog' = [login_dialog EXCEPT !.failed_attempts = @ + 1]
                /\ user_activity' = IF username = <<>> \/ password = <<>> THEN user_activity
                                    ELSE Append(user_activity, ActivityRow(username, "Login", "Failure"))
                /\ exited' = (login_dialog.failed_attempts + 1 >= MAX_ATTEMPTS)
                /\ last' = [op |-> "try_login", username |-> username, password |-> password, valid_login |-> FALSE]
                /\ UNCHANGED preferences
    /\ UNCHANGED <<tasks, priorities, users, sent_notifications, now, app, events, csv_file, task_tracker, task_row_to_id, task_table>>

(* The slot of the Login button and of the Return shortcut of the visible  *)
(* dialog.  sys.exit() in the slot ends the process.                       *)
try_login(username, password) ==
    /\ ~ exited
    /\ ~ login_dialog.accepted
    /\ Len(user_activity) < MaxActivity
    /\ IF username = <<>> \/ password = <<>>
       THEN /\ last' = [op |-> "try_login", username |-> username, password |-> password, valid_login |-> NoneText]
            /\ UNCHANGED <<login_dialog, user_activity, exited, preferences, task_row_to_id, task_table>>
       ELSE LET r == verify_user(username, password)
            IN  IF r[1]
                THEN /\ login_dialog' = [login_dialog EXCEPT !.accepted = TRUE, !.user_id = r[2]]
                     /\ user_activity' = Append(user_activity, ActivityRow(username, "Login", "Success"))
                     /\ preferences' = IF DictGet(get_preferences(r[2]), "has_seen_welcome_message", NoneText) = "True"
                                       THEN preferences
                                       ELSE SaveItems(preferences, r[2], << <<"has_seen_welcome_message", "True">> >>)
                     /\ exited' = exited
                     /\ last' = [op |-> "try_login", username |-> username, password |-> password, valid_login |-> TRUE]
                ELSE /\ user_activity' = Append(user_activity, ActivityRow(username, "Login", "Failure"))
                     /\ login_dialog' = [login_dialog EXCEPT !.failed_attempts = @ + 1]
                     /\ exited' = (login_dialog.failed_attempts + 1 >= MAX_ATTEMPTS)
                     /\ last' = [op |-> "try_login", username |-> username, password |-> password, valid_login |-> FALSE]
                     /\ UNCHANGED preferences
    /\ UNCHANGED <<tasks, priorities, users, sent_notifications, now, app, events, csv_file, task_tracker, task_row_to_id, task_table>>

(* MainWindow.logout: the window has no attribute username, so nothing is  *)
(* logged; the login dialog is reset and shown again.                      *)
logout ==
    /\ ~ exited
    /\ login_dialog.accepted
    /\ login_dialog' = [login_dialog EXCEPT !.failed_attempts = 0, !.accepted = FALSE]
    /\ last' = [op |-> "logout"]
    /\ UNCHANGED <<tasks, priorities, users, preferences, sent_notifications, now, app, events, csv_file, task_tracker, user_activity, exited, task_row_to_id, task_table>>

Init ==
    /\ tasks = <<>>
    /\ priorities = <<>>
    /\ users = <<>>
    /\ preferences = <<>>
    /\ sent_notifications = <<>>
    /\ now = 0
    /\ app = "project"
    /\ events = <<>>
    /\ csv_file = <<>>
    /\ task_tracker = [thread |-> "new", running |-> "unset", stop |-> "idle"]
    /\ login_dialog = [failed_attempts |-> 0, user_id |-> NoneId, accepted |-> FALSE]
    /\ user_activity = <<>>
    /\ exited = FALSE
    /\ task_row_to_id = <<>>
    /\ task_table = <<>>
    /\ last = [op |-> "init"]

TaskIdInputs == 1..(MaxTasks + 1)

TaskNext ==
    \/ \E u \in OneUser, n \in TaskNames, d \in DueDates,
          p \in PriorityNames, c \in Categories : add_task(u, n, d, p, c)
    \/ \E t \in TaskIdInputs, n \in TaskNames, d \in DueDates,
          p \in PriorityNames, c \in Categories : update_task(t, n, d, p, c)
    \/ \E ids \in SUBSET TaskIdInputs : remove_tasks(ids)
    \/ \E t \in TaskIdInputs : set_task_complete(t)
    \/ \E f \in CsvFiles, u \in OneUser : import_tasks(f, u)

TaskSpec == Init /\ [][TaskNext]_vars

ListNext ==
    \/ \E u \in UserIds, n \in ValidTaskNames, d \in DueDates,
          p \in PriorityNames, c \in Categories : add_task(u, n, d, p, c)
    \/ \E ids \in SUBSET TaskIdInputs : remove_tasks(ids)
    \/ \E t \in TaskIdInputs : set_task_complete(t)
    \/ \E n \in PriorityNames, c \in Colors, u \in UserIds :
          add_priority(n, c, u)

ListSpec == Init /\ [][ListNext]_vars

UserIdInputs == 1..(MaxUsers + 1)

UserNext ==
    \/ \E u \in Usernames, p \in Passwords : create_user(u, p)
    \/ \E i \in UserIdInputs, n \in ProfileNames, u \in Usernames,
          e \in Emails : update_user_profile(i, n, u, e)
    \/ \E i \in UserIdInputs, p \in Passwords : update_user_password(i, p)
    \/ \E u \in Usernames \cup { <<>> }, p \in Passwords,
          r \in Passwords : register(u, p, r)

UserSpec == Init /\ [][UserNext]_vars

SearchNext ==
    \/ \E u \in UserIds, n \in SearchNames, d \in DueDates,
          p \in PriorityNames, c \in Categories :
          Len(tasks) < MaxQueryTasks /\ add_task(u, n, d, p, c)
    \/ \E t \in 1..(MaxQueryTasks + 1) : remove_tasks({t})
    \/ \E t \in 1..(MaxQueryTasks + 1) : set_task_complete(t)

SearchSpec == Init /\ [][SearchNext]_vars

DueNext ==
    \/ \E u \in OneUser, n \in DueNames, d \in PollDates,
          p \in PriorityNames, c \in Categories :
          Len(tasks) < MaxQueryTasks /\ add_task(u, n, d, p, c)
    \/ \E t \in 1..(MaxQueryTasks + 1) : remove_tasks({t})
    \/ \E t \in 1..(MaxQueryTasks + 1) : set_task_complete(t)
    \/ \E t \in PollInstants : advance_clock(t)

DueSpec == Init /\ [][DueNext]_vars

(* Either program, just started.                                          *)
AppInit ==
    /\ tasks = <<>>
    /\ priorities = <<>>
    /\ users = <<>>
    /\ preferences = <<>>
    /\ sent_notifications = <<>>
    /\ now = 0
    /\ app \in Apps
    /\ events = <<>>
    /\ csv_file = <<>>
    /\ task_tracker = [thread |-> "new", running |-> "unset", stop |-> "idle"]
    /\ login_dialog = [failed_attempts |-> 0, user_id |-> NoneId, accepted |-> FALSE]
    /\ user_activity = <<>>
    /\ exited = FALSE
    /\ task_row_to_id = <<>>
    /\ task_table = <<>>
    /\ last = [op |-> "init"]

PollNext ==
    \/ \E u \in OneUser, n \in ValidTaskNames, d \in PollDates,
          p \in PriorityNames, c \in Categories :
          Len(tasks) < MaxPollTasks /\ add_task(u, n, d, p, c)
    \/ \E t \in 1..(MaxPollTasks + 1) : remove_tasks({t})
    \/ \E t \in PollInstants : advance_clock(t)
    \/ run
    \/ \E ch \in Channels : app = "project" /\ notify_due_tasks(ch)
    \/ \E ch \in Channels : app = "legacy" /\ legacy_notify_due_tasks(ch)

PollSpec == AppInit /\ [][PollNext]_vars

NotificationIds == { "n1", "n2" }
Titles == { "", "Task Due" }
Messages == { "", "Task is due today." }
SendFrequencies == { "daily", "hourly", "weekly", "biweekly" }
Switches == { "True", "False" }

NotifyNext ==
    \/ \E t \in NotifyInstants : advance_clock(t)
    \/ \E v \in Switches :
          /\ app = "project"
          /\ save_preferences(SessionUser, << <<"enable_notifications", v>> >>)
    \/ \E v \in Switches :
          /\ app = "legacy"
          /\ legacy_save_preferences(<< <<"enable_notifications", v>> >>)
    \/ \E id \in NotificationIds, t \in Titles, m \in Messages,
          f \in SendFrequencies, ch \in Channels, smtp \in Channels :
          app = "project" /\ send_notification(id, t, m, f, ch, smtp)
    \/ \E id \in NotificationIds, t \in Titles, m \in Messages,
          f \in SendFrequencies, ch \in Channels :
          app = "legacy" /\ legacy_send_notification(id, t, m, f, ch)

NotifySpec == AppInit /\ [][NotifyNext]_vars

PrefKeys == { "theme", "enable_notifications", "font_size" }
PrefValues == { "True", "False" }
PrefItem == { <<k, v>> : k \in PrefKeys, v \in PrefValues }

(* The dicts handed to save_preferences: one entry, or two entries under   *)
(* different keys.                                                         *)
PrefDicts ==
    { <<a>> : a \in PrefItem }
    \cup { <<ab[1], ab[2]>> :
              ab \in { x \in PrefItem \X PrefItem : x[1][1] # x[2][1] } }

PrefNext ==
    \/ \E u \in UserIds, d \in PrefDicts : save_preferences(u, d)

PrefSpec == Init /\ [][PrefNext]_vars

(* Export and import through one file; the import runs when the file      *)
(* exists.                                                                 *)
CsvNext ==
    \/ \E u \in OneUser, n \in ValidTaskNames, d \in DueDates,
          p \in PriorityNames, c \in Categories :
          Len(tasks) < MaxQueryTasks /\ add_task(u, n, d, p, c)
    \/ \E t \in 1..(MaxQueryTasks + 1), n \in TaskNames, d \in DueDates,
          p \in PriorityNames, c \in Categories : update_task(t, n, d, p, c)
    \/ \E t \in 1..(MaxQueryTasks + 1) : remove_tasks({t})
    \/ \E t \in 1..(MaxQueryTasks + 1) : set_task_complete(t)
    \/ \E u \in UserIds : export_tasks(u)
    \/ \E u \in UserIds :
          /\ csv_file # <<>>
          /\ Len(tasks) + Len(csv_file) - 1 <= MaxQueryTasks + 1
          /\ import_tasks(csv_file, u)

CsvSpec == Init /\ [][CsvNext]_vars

WrapNext ==
    \/ \E u \in Usernames, f \in Faults, e \in ErrorTexts :
          project_create_user(u, StrongPassword, f, e)
    \/ \E u \in Usernames, p \in Passwords, f \in Faults : login_user(u, p, f)
    \/ \E u \in UserIds, f \in Faults : fetch_tasks(u, f)
    \/ \E u \in UserIds, n \in ValidTaskNames, d \in DueDates,
          p \in PriorityNames, c \in Categories :
          Len(tasks) < MaxPollTasks /\ add_task(u, n, d, p, c)
    \/ \E t \in 1..(MaxPollTasks + 1) : remove_tasks({t})

WrapSpec == Init /\ [][WrapNext]_vars

(* The caller of stop() is blocked in wait(): nothing else of the main     *)
(* thread runs meanwhile.                                                  *)
MainThreadFree == task_tracker.stop # "waiting"

ThreadNext ==
    \/ \E u \in OneUser, n \in DueNames, d \in PollDates,
          p \in PriorityNames, c \in Categories :
          MainThreadFree /\ Len(tasks) < MaxPollTasks /\ add_task(u, n, d, p, c)
    \/ \E t \in 1..(MaxPollTasks + 1) : MainThreadFree /\ remove_tasks({t})
    \/ \E t \in PollInstants : advance_clock(t)
    \/ MainThreadFree /\ start
    \/ TaskTracker_run
    \/ \E ch \in Channels : MainThreadFree /\ notify_due_tasks(ch)
    \/ MainThreadFree /\ stop
    \/ stop_returns

ThreadSpec == Init /\ [][ThreadNext]_vars

(* The poller and its slot beside the task edits of two users.             *)
TenantNext ==
    \/ \E u \in UserIds, n \in DueNames, d \in PollDates,
          p \in PriorityNames, c \in Categories :
          Len(tasks) < MaxPollTasks /\ add_task(u, n, d, p, c)
    \/ \E t \in 1..MaxPollTasks, n \in DueNames, d \in PollDates,
          p \in PriorityNames, c \in Categories : update_task(t, n, d, p, c)
    \/ \E t \in 1..MaxPollTasks : remove_tasks({t})
    \/ \E t \in PollInstants : advance_clock(t)
    \/ run
    \/ \E ch \in Channels : notify_due_tasks(ch)

TenantSpec == Init /\ [][TenantNext]_vars

AlertInstants == { 3600, Days(1) }

(* The poller and its slot beside the task edits of the logged-in user.    *)
AlertNext ==
    \/ \E u \in OneUser, n \in DueNames, d \in PollDates,
          p \in PriorityNames, c \in Categories :
          Len(tasks) < MaxQueryTasks /\ add_task(u, n, d, p, c)
    \/ \E t \in 1..MaxQueryTasks, n \in DueNames, d \in PollDates,
          p \in PriorityNames, c \in Categories : update_task(t, n, d, p, c)
    \/ \E t \in 1..MaxQueryTasks : remove_tasks({t})
    \/ \E t \in 1..MaxQueryTasks : set_task_complete(t)
    \/ \E t \in AlertInstants : advance_clock(t)
    \/ run
    \/ \E ch \in Channels : app = "project" /\ notify_due_tasks(ch)
    \/ \E ch \in Channels : app = "legacy" /\ legacy_notify_due_tasks(ch)

AlertSpec == AppInit /\ [][AlertNext]_vars

LoginNames == Usernames \cup { <<>> }
LoginPasswords == Passwords \cup { <<>> }

LoginNext ==
    \/ \E u \in Usernames : ~ exited /\ create_user(u, StrongPassword)
    \/ \E u \in LoginNames, p \in LoginPasswords : try_login(u, p)
    \/ logout

LoginSpec == Init /\ [][LoginNext]_vars

(* The main window of the logged-in user, with removals made through the   *)
(* store by other means.                                                   *)
WindowNext ==
    \/ \E n \in TaskNames \cup DueNames, d \in PollDates, p \in PriorityNames, c \in Categories :
          Len(tasks) < MaxQueryTasks /\ MainWindow_add_task(n, d, p, c)
    \/ \E sel \in SUBSET (0..(MaxQueryTasks - 1)) : remove_selected_task(sel)
    \/ \E row \in 0..(MaxQueryTasks - 1), n \in DueNames, d \in PollDates,
          p \in PriorityNames, c \in Categories : edit_selected_task(row, n, d, p, c)
    \/ refresh_task
    \/ \E t \in 1..MaxQueryTasks : remove_tasks({t})

WindowSpec == Init /\ [][WindowNext]_vars

(* ====================================================================== *)
(* Properties                                                              *)
(* ====================================================================== *)
ExistingIds(tbl) == { tbl[i].id : i \in 1..Len(tbl) }

ListedIds(rows) == { rows[k].id : k \in 1..Len(rows) }

(* C1 (as stated): every change of an existing task's status is            *)
(* active(1) -> completed(2) or active(1) -> inactive(0); a completed or   *)
(* inactive task never changes status.                                     *)
C1_OnlyFromActive ==
    [][\A i \in 1..Len(tasks) :
          tasks'[i].status # tasks[i].status
          => /\ tasks[i].status = STATUS_ACTIVE
             /\ tasks'[i].status \in {STATUS_COMPLETED, STATUS_INACTIVE}]_vars

(* C1 (amended): every change of an existing task's status is made by      *)
(* remove_tasks on one of its ids, to inactive(0), or by set_task_complete *)
(* on its id, to completed(2), whatever the status was before; update_task,*)
(* add_task and import_tasks change no existing task's status, and no      *)
(* operation sets the status of an existing task to active(1).             *)
C1_StatusChanges ==
    [][\A i \in 1..Len(tasks) :
          tasks'[i].status # tasks[i].status
          => \/ /\ last'.op = "remove_tasks"
                /\ tasks[i].id \in last'.ids
                /\ tasks'[i].status = STATUS_INACTIVE
             \/ /\ last'.op = "set_task_complete"
                /\ tasks[i].id = last'.id
                /\ tasks'[i].status = STATUS_COMPLETED]_vars

(* A completed task has just been removed: completed -> inactive happened. *)
C1_Witness ==
    /\ last.op = "remove_tasks"
    /\ STATUS_COMPLETED \in last.prev

(* C2: completion is forward-only: once a task is completed(2), no later   *)
(* sequence of store operations makes that task active(1) again.  Stated   *)
(* per step: a task that is completed, or inactive (the only other status  *)
(* a completed task can take), is not active after the step.               *)
StatusOfTask(task_id) ==
    IF \E i \in 1..Len(tasks) : tasks[i].id = task_id
    THEN tasks[CHOOSE i \in 1..Len(tasks) : tasks[i].id = task_id].status
    ELSE NoneStatus

C2_CompletionForwardOnly ==
    [][\A t \in TaskIdInputs :
          StatusOfTask(t) \in {STATUS_COMPLETED, STATUS_INACTIVE}
          => StatusOfTask(t)' # STATUS_ACTIVE]_vars

(* A completed task has since been operated on by remove_tasks.            *)
C2_Witness ==
    /\ last.op = "remove_tasks"
    /\ STATUS_COMPLETED \in last.prev
    /\ \E i \in 1..Len(tasks) : tasks[i].status = STATUS_COMPLETED

(* C3: removal is soft: no step removes a task row (rows keep their id and *)
(* owner and the row count never decreases); remove_tasks(ids) only sets   *)
(* status = inactive(0) on the rows whose id is in ids, so list_tasks      *)
(* afterwards returns the rows listed before minus those in ids, while the *)
(* table keeps all its rows.                                               *)
C3_SoftRemoval ==
    [][/\ Len(tasks') >= Len(tasks)
       /\ \A i \in 1..Len(tasks) :
             /\ tasks'[i].id = tasks[i].id
             /\ tasks'[i].user_id = tasks[i].user_id
       /\ last'.op = "remove_tasks"
          => /\ Len(tasks') = Len(tasks)
             /\ \A i \in 1..Len(tasks) :
                   tasks'[i] = IF tasks[i].id \in last'.ids
                               THEN [tasks[i] EXCEPT !.status = STATUS_INACTIVE]
                               ELSE tasks[i]
             /\ \A u \in UserIds :
                   /\ ListedIds(list_tasks(u, NoneStatus)')
                        = ListedIds(list_tasks(u, NoneStatus)) \ last'.ids
                   /\ Len(list_tasks(u, NoneStatus)')
                        = Cardinality(ListedIds(list_tasks(u, NoneStatus))
                                      \ last'.ids)]_vars

(* Three tasks were added, two of them removed in one call: one is listed, *)
(* three rows remain.                                                      *)
C3_Witness ==
    /\ last.op = "remove_tasks"
    /\ Cardinality(last.ids \cap ExistingIds(tasks)) = 2
    /\ last.prev = {STATUS_ACTIVE}
    /\ Len(tasks) = 3
    /\ \E u \in UserIds : Len(list_tasks(u, NoneStatus)) = 1

(* C4: removal is idempotent: remove_tasks on ids whose rows are already   *)
(* inactive leaves them inactive, leaves every row unchanged and reports   *)
(* no error (the same message as a first removal).                         *)
C4_IdempotentRemoval ==
    [][(last'.op = "remove_tasks" /\ last'.prev = {STATUS_INACTIVE})
       => /\ tasks' = tasks
          /\ \A i \in 1..Len(tasks) :
                tasks[i].id \in last'.ids
                => tasks'[i].status = STATUS_INACTIVE
          /\ last'.exc = NoneText
          /\ last'.ret = "Tasks successfully set as inactive."]_vars

(* remove_tasks has just been called on a row that was already inactive.   *)
C4_Witness ==
    /\ last.op = "remove_tasks"
    /\ last.prev = {STATUS_INACTIVE}
    /\ \E i \in 1..Len(tasks) :
          tasks[i].id \in last.ids /\ tasks[i].status = STATUS_INACTIVE

(* C5: list_tasks(user_id) with the default status returns exactly the     *)
(* tasks of user_id whose status is active(1) or completed(2), each once:  *)
(* no inactive task and no task of another user appears.                   *)
C5_ListDefault ==
    \A u \in UserIds :
        LET rows == list_tasks(u, NoneStatus)
            expected == { tasks[i].id : i \in
                            { j \in 1..Len(tasks) :
                                /\ tasks[j].user_id = u
                                /\ tasks[j].status \in
                                     {STATUS_ACTIVE, STATUS_COMPLETED} } }
        IN  /\ ListedIds(rows) = expected
            /\ Len(rows) = Cardinality(expected)
            /\ \A k \in 1..Len(rows) :
                  \E i \in 1..Len(tasks) :
                      /\ tasks[i].id = rows[k].id
                      /\ tasks[i].name = rows[k].name
                      /\ tasks[i].status = rows[k].status

(* One user owns a completed and an inactive task, another user owns an    *)
(* active one, and a priority row matches a listed task.                   *)
C5_Witness ==
    /\ \E i, j, k \in 1..Len(tasks) :
          /\ tasks[i].user_id = 1 /\ tasks[i].status = STATUS_COMPLETED
          /\ tasks[j].user_id = 1 /\ tasks[j].status = STATUS_INACTIVE
          /\ tasks[k].user_id = 2 /\ tasks[k].status = STATUS_ACTIVE
    /\ Len(priorities) > 0
    /\ Len(list_tasks(1, NoneStatus)) = 1
    /\ Len(list_tasks(2, NoneStatus)) = 1

(* C9: add_task with a name that is empty after trimming leaves the tasks  *)
(* table unchanged and returns (error, None) instead of raising.           *)
C9_BlankNameReturnsError ==
    (last.op = "add_task" /\ ~ is_valid_task_name(last.name))
    => /\ last.exc = NoneText
       /\ last.err # NoneText
       /\ last.id = NoneId

(* C10: every row of tasks has a name that is non-empty after trimming.    *)
C10_NamesNeverBlank ==
    \A i \in 1..Len(tasks) : is_valid_task_name(tasks[i].name)

(* The passwords that differ from password in exactly one character.       *)
SingleCharMutations(password) ==
    { [password EXCEPT ![i] = c] : i \in 1..Len(password), c \in Alphabet }
    \ { password }

C7_UsernamesUnique ==
    \A i, j \in 1..Len(users) :
        i # j => users[i].username # users[j].username

(* C8: create_user rejects the request and inserts no row when username    *)
(* has fewer than 4 characters or password fails the strength policy.      *)
C8_CreateUserValidates ==
    (last.op = "create_user"
       /\ (~ is_valid_username(last.username)
             \/ ~ is_valid_password(last.password)[1]))
    => /\ last.exc # NoneText \/ last.ret # NoneText
       /\ ~ \E i \in 1..Len(users) : users[i].id = last.id

SearchFlags == BOOLEAN

(* C11: for every combination of match_case, whole_word and use_regex and  *)
(* every text, every row search_tasks(user_id, text, ...) returns belongs  *)
(* to a task of user_id and has status active(1) or completed(2).          *)
C11_SearchScoped ==
    \A u \in UserIds, text \in SearchTexts,
       mc \in SearchFlags, ww \in SearchFlags, rx \in SearchFlags :
        LET rows == search_tasks(u, text, mc, ww, rx)
        IN  \A k \in 1..Len(rows) :
              /\ rows[k].status \in {STATUS_ACTIVE, STATUS_COMPLETED}
              /\ \E i \in 1..Len(tasks) :
                    /\ tasks[i].id = rows[k].id
                    /\ tasks[i].user_id = u

(* A search returned rows while a task of another user, or a removed task  *)
(* of the same user, matches the same text.                                *)
C11_Witness ==
    \E u \in UserIds, text \in SearchTexts :
        /\ search_tasks(u, text, FALSE, FALSE, FALSE) # <<>>
        /\ \E i \in 1..Len(tasks) :
              /\ Like(<<"%">> \o text \o <<"%">>, tasks[i].name)
              /\ \/ tasks[i].user_id # u
                 \/ tasks[i].status = STATUS_INACTIVE

StartsWith(s, prefix) ==
    /\ Len(prefix) <= Len(s)
    /\ SubSeq(s, 1, Len(prefix)) = prefix

EndsWith(s, suffix) ==
    /\ Len(suffix) <= Len(s)
    /\ SubSeq(s, Len(s) - Len(suffix) + 1, Len(s)) = suffix

Contains(s, part) ==
    \E k \in 0..(Len(s) - Len(part)) : SubSeq(s, k + 1, k + Len(part)) = part

WholeWordIds(user_id, text) ==
    { tasks[i].id : i \in { j \in 1..Len(tasks) :
        /\ tasks[j].user_id = user_id
        /\ tasks[j].status \in {STATUS_ACTIVE, STATUS_COMPLETED}
        /\ \/ tasks[j].name = text
           \/ StartsWith(tasks[j].name, text \o <<" ">>)
           \/ EndsWith(tasks[j].name, <<" ">> \o text)
           \/ Contains(tasks[j].name, <<" ">> \o text \o <<" ">>) } }

(* C12: search_tasks(user_id, text, whole_word=True, use_regex=False)      *)
(* returns exactly the user's non-removed tasks whose name equals text,    *)
(* starts with text and a space, ends with a space and text, or contains   *)
(* text between two spaces; so with "b m" stored, the whole-word search    *)
(* for "m" returns a row.                                                  *)
C12_WholeWordSearch ==
    \A u \in UserIds, text \in SearchTexts :
        ListedIds(search_tasks(u, text, FALSE, TRUE, FALSE))
            = WholeWordIds(u, text)

(* The text of the date `now` falls on, for the days of PollInstants.      *)
TodayText == IF now < Days(1) THEN "2024-01-01" ELSE "2024-01-02"

DueRows ==
    { i \in 1..Len(tasks) : /\ tasks[i].due_date = TodayText
                            /\ tasks[i].status = STATUS_ACTIVE }

(* C13: get_due_tasks returns exactly the names of the tasks whose         *)
(* due_date is today's date and whose status is active(1): one name per    *)
(* such task, in table order, and no other name.                           *)
C13_DueToday ==
    /\ Len(get_due_tasks) = Cardinality(DueRows)
    /\ \A k \in 1..Len(get_due_tasks) :
          \E i \in DueRows :
              /\ tasks[i].name = get_due_tasks[k]
              /\ Cardinality({ j \in DueRows : j < i }) = k - 1

(* On the second day the result holds a task due that day and leaves out   *)
(* another task: one due that day but not active, or one due the day       *)
(* before.                                                                 *)
C13_Witness ==
    /\ now >= Days(1)
    /\ get_due_tasks # <<>>
    /\ \E i \in 1..Len(tasks) : \/ tasks[i].due_date # TodayText
                                \/ tasks[i].status # STATUS_ACTIVE

(* The stored enable_notifications value the running program reads, with   *)
(* the default of the read.                                                *)
StoredSwitch ==
    IF app = "project"
    THEN DictGet(get_preferences(SessionUser), "enable_notifications", "True")
    ELSE DictGet(legacy_get_preferences, "enable_notifications", "True")

(* C14: with notifications enabled, a working delivery channel and         *)
(* frequency "daily", send_notification returns True unless the same id    *)
(* was already sent on the same calendar day, and then returns False: two  *)
(* calls on one day return True then False, and the next call after the    *)
(* date has rolled over returns True.                                      *)
C14_DailyGate ==
    [][(/\ last'.op = "send_notification"
        /\ last'.frequency = "daily"
        /\ ~ last'.blank
        /\ last'.channel = "ok"
        /\ StoredSwitch = "True")
       => last'.ret = (\/ LastSent(sent_notifications, last'.id) = NoneTime
                       \/ DateOf(LastSent(sent_notifications, last'.id))
                            # DateOf(now))]_vars

NoDuplicates(names) ==
    \A i \in 1..Len(names), j \in 1..Len(names) :
        names[i] = names[j] => i = j

(* C15: each due-task event of the poller is run through the scheduler,    *)
(* one send per name with id "task_due_" + name and frequency "hourly",    *)
(* so a notification for a task name is delivered only when none was       *)
(* delivered for that name in the 3600 seconds before, and at most once    *)
(* per event.                                                              *)
C15_PollerHourlyDedup ==
    [][last'.op = "notify_due_tasks"
       => /\ last'.exc = NoneText
          /\ NoDuplicates(last'.delivered)
          /\ \A k \in 1..Len(last'.delivered) :
                LET before == LastSent(sent_notifications,
                                       NotificationId(last'.delivered[k]))
                IN  \/ before = NoneTime
                    \/ now - before >= SecondsPerHour]_vars

CustomHours == { 1, 2 }

(* C16: with a last-sent time on record, should_send_notification is true  *)
(* for "biweekly" iff at least 14 days have passed, for "monthly" iff the  *)
(* month or the year differs, for "yearly" iff the year differs, and for   *)
(* "custom_<N>" iff at least N hours have passed; so a second attempt at   *)
(* the instant of the last successful send is suppressed.                  *)
C16_FrequencyTable ==
    \A id \in DOMAIN sent_notifications :
        LET sent_at == sent_notifications[id]
        IN  /\ should_send_notification(sent_notifications, id, "biweekly")
                  = (now - sent_at >= Days(14))
            /\ should_send_notification(sent_notifications, id, "monthly")
                  = (\/ MonthOf(DateOf(now)) # MonthOf(DateOf(sent_at))
                     \/ YearOf(DateOf(now)) # YearOf(DateOf(sent_at)))
            /\ should_send_notification(sent_notifications, id, "yearly")
                  = (YearOf(DateOf(now)) # YearOf(DateOf(sent_at)))
            /\ \A n \in CustomHours :
                  should_send_notification(sent_notifications, id,
                                           "custom_" \o ToString(n))
                      = (now - sent_at >= n * SecondsPerHour)

(* The Monday of the calendar week a date falls in.                        *)
WeekStart(date) == date - (IsoWeekday(date) - 1)

(* C17: should_send_notification(id, "weekly") is true iff the current     *)
(* time lies in another calendar (ISO) week than the last-sent time, for   *)
(* every pair of times, pairs a year or more apart included.               *)
C17_WeeklyGate ==
    \A id \in DOMAIN sent_notifications :
        should_send_notification(sent_notifications, id, "weekly")
            = (WeekStart(DateOf(now))
                 # WeekStart(DateOf(sent_notifications[id])))

(* C18: the record of last-sent times changes only by a send_notification  *)
(* that returns True, which sets the time of its id to now; a call with an *)
(* empty title or message, with a channel that returns false or raises,    *)
(* with notifications disabled or with the frequency gate closed returns   *)
(* False and leaves the record as it was.                                  *)
C18_RecordOnlyOnSuccess ==
    [][/\ sent_notifications' # sent_notifications
          => /\ last'.op = "send_notification"
             /\ last'.ret = TRUE
             /\ sent_notifications'
                  = update_last_sent_time(sent_notifications, last'.id)
       /\ (/\ last'.op = "send_notification"
           /\ \/ last'.blank
              \/ last'.channel = "raises"
              \/ StoredSwitch # "True"
              \/ ~ should_send_notification(sent_notifications, last'.id,
                                            last'.frequency))
          => /\ last'.ret = FALSE
             /\ sent_notifications' = sent_notifications]_vars

(* A send was refused by the closed gate of an id sent before: it returned *)
(* False and the time on record is still that of the earlier send.         *)
C18_Witness ==
    /\ last.op = "send_notification"
    /\ ~ last.blank
    /\ last.channel = "ok"
    /\ ~ last.open
    /\ last.ret = FALSE
    /\ last.id \in DOMAIN sent_notifications
    /\ sent_notifications[last.id] = last.prev
    /\ last.prev < now

(* C19: every send is gated on the enable_notifications preference as      *)
(* stored at the attempt: when it is "False" the call delivers nothing,    *)
(* returns False and records nothing; when it is "True" (again), a call    *)
(* with title, message and a working channel is decided by the frequency   *)
(* gate alone.                                                             *)
C19_PreferenceGate ==
    [][last'.op = "send_notification"
       => /\ StoredSwitch = "False"
             => /\ last'.ret = FALSE
                /\ ~ last'.delivered
                /\ sent_notifications' = sent_notifications
          /\ (StoredSwitch = "True" /\ ~ last'.blank /\ last'.channel = "ok")
             => last'.ret = should_send_notification(sent_notifications,
                                last'.id, last'.frequency)]_vars

(* C20: save_preferences(A, m) creates or replaces entries of user A only: *)
(* for every other user B, get_preferences(B) is the same after the call,  *)
(* also when B holds entries under the keys of m.                          *)
C20_PreferencesPerUser ==
    [][last'.op = "save_preferences"
       => \A b \in UserIds \ { last'.user_id } :
             get_preferences(b)' = get_preferences(b)]_vars

OwnsPriority(user_id, priority_name) ==
    \E i \in 1..Len(priorities) : /\ priorities[i].user_id = user_id
                                  /\ priorities[i].name = priority_name

(* C21: priority names are unique per user: add_priority(name, color,      *)
(* user) answers "already exists" exactly when that user already owns a    *)
(* priority of that name, and inserts the row otherwise, also when another *)
(* user owns a priority of the same name.                                  *)
C21_PriorityPerUser ==
    [][\A n \in PriorityNames, c \in Colors, u \in UserIds :
          add_priority(n, c, u)
          => /\ (last'.ret = "already exists") = OwnsPriority(u, n)
             /\ (Len(priorities') = Len(priorities) + 1)
                   = ~ OwnsPriority(u, n)]_vars

TasksOf(tbl, user_id) == SelectSeq(tbl, LAMBDA t : t.user_id = user_id)

(* C22: when the file just written by export_tasks(A) is imported by       *)
(* import_tasks for another user B who has no tasks, B has afterwards one  *)
(* task per non-removed task of A, with the same name, due_date, priority  *)
(* and category and status active(1), and A's tasks are as they were.      *)
C22_CsvRoundTrip ==
    [][\A a \in UserIds, b \in UserIds :
          (/\ a # b
           /\ last.op = "export_tasks"
           /\ last.user_id = a
           /\ TasksOf(tasks, b) = <<>>
           /\ import_tasks(csv_file, b))
          => LET exported == SelectSeq(TasksOf(tasks, a),
                     LAMBDA t : t.status \in {STATUS_ACTIVE, STATUS_COMPLETED})
                 imported == TasksOf(tasks', b)
             IN  /\ Len(imported) = Len(exported)
                 /\ \A k \in 1..Len(exported) :
                       /\ imported[k].name = exported[k].name
                       /\ imported[k].due_date = exported[k].due_date
                       /\ imported[k].priority = exported[k].priority
                       /\ imported[k].category = exported[k].category
                       /\ imported[k].status = STATUS_ACTIVE
                 /\ TasksOf(tasks', a) = TasksOf(tasks, a)]_vars

(* C23: the project.py wrappers never let a failure escape.  Whatever is   *)
(* raised in TaskManager() or in the wrapped call, fetch_tasks returns the *)
(* empty list, login_user returns (False, None) and create_user returns    *)
(* the error text, with the store untouched; with no exception each        *)
(* wrapper returns exactly what the store method returns.                  *)
C23_WrappersContainFailures ==
    [][/\ \A u \in Usernames, p \in Passwords, f \in Faults, e \in ErrorTexts :
             project_create_user(u, p, f, e)
             => /\ last'.exc = NoneText
                /\ f # "none" => /\ last'.ret = e
                                 /\ last'.args = <<u, p>>
                                 /\ users' = users
                /\ f = "none" => /\ last'.op = "create_user"
                                 /\ last'.username = u
                                 /\ last'.ret = NoneText
                                 /\ Len(users') = Len(users) + 1
       /\ last'.op = "login_user"
             => /\ last'.exc = NoneText
                /\ last'.ret = IF last'.fault = "none"
                               THEN verify_user(last'.args[1], last'.args[2])
                               ELSE << FALSE, NoneId >>
       /\ last'.op = "fetch_tasks"
             => /\ last'.exc = NoneText
                /\ last'.ret = IF last'.fault = "none"
                               THEN list_tasks(last'.args[1], NoneStatus)
                               ELSE <<>>]_vars

C23_Witness ==
    /\ last.op = "login_user"
    /\ last.fault = "TaskManager()"
    /\ last.ret = << FALSE, NoneId >>
    /\ \E u \in Usernames : verify_user(u, StrongPassword)[1]

(* C24: the poller cannot be cancelled.  Once started, the thread never    *)
(* leaves the loop of run; stop() changes nothing the loop reads, so the   *)
(* next pass stays enabled (while the signal queue has room), and a stop() *)
(* entered while the thread runs never returns from its wait.              *)
C24_NoGracefulStop ==
    /\ [](task_tracker.thread = "running" /\ Len(events) < MaxEvents => ENABLED TaskTracker_run)
    /\ [][/\ task_tracker.thread = "running" => task_tracker'.thread = "running"
          /\ task_tracker.thread = "running" /\ task_tracker.stop = "waiting" => task_tracker'.stop = "waiting"]_vars

C24_Witness ==
    /\ task_tracker.thread = "running"
    /\ task_tracker.stop = "waiting"
    /\ task_tracker.running = "False"
    /\ last.op = "run"
    /\ last.found > 0

(* C25: a removed task stays hidden.  A task whose status is inactive(0)   *)
(* is, after any store operation on any ids, still absent from the default *)
(* list_tasks of its user and from every search_tasks result.              *)
C25_RemovedStaysHidden ==
    [][\A i \in 1..Len(tasks) :
          tasks[i].status = STATUS_INACTIVE
          => /\ tasks[i].id \notin ListedIds(list_tasks(tasks[i].user_id, NoneStatus))'
             /\ \A text \in SearchTexts, mc \in SearchFlags, ww \in SearchFlags, rx \in SearchFlags :
                   tasks[i].id \notin ListedIds(search_tasks(tasks[i].user_id, text, mc, ww, rx))']_vars

(* The names get_due_tasks would return if it selected user_id's rows only.*)
DueNamesOf(user_id) ==
    LET today == strftime(DateOf(now))
    IN  NamesOf(SelectSeq(tasks, LAMBDA t : /\ t.user_id = user_id
                                            /\ t.due_date = today
                                            /\ t.status = STATUS_ACTIVE))

(* C26: due-task notifications do not cross users.  The event a poll emits *)
(* lists the due tasks of the logged-in user and of nobody else, so what   *)
(* the slot is given does not depend on other users' tasks.                *)
C26_AlertsStayWithUser ==
    [][last'.op = "run" /\ events' # events
       => events'[Len(events')] = DueNamesOf(SessionUser)]_vars

NotSentWithinHour(name) ==
    LET before == LastSent(sent_notifications, NotificationId(name))
    IN  before = NoneTime \/ now - before >= SecondsPerHour

(* C27: one task's de-duplication state never suppresses another task.     *)
(* When the slot is given two or more due tasks, none notified within the  *)
(* last hour, every one of them gets an attempt that passes the frequency  *)
(* gate, also when two of them have the same name.                         *)
C27_DedupPerTask ==
    [][/\ last'.op = "notify_due_tasks"
       /\ Len(last'.tasks) >= 2
       /\ \A k \in 1..Len(last'.tasks) : NotSentWithinHour(last'.tasks[k])
       => /\ last'.exc = NoneText
          /\ Len(last'.gate) = Len(last'.tasks)
          /\ \A k \in 1..Len(last'.gate) : last'.gate[k]]_vars

(* C28: no stale alert.  A name the slot delivers a notification for is,   *)
(* at that moment, the name of a task that is active and due today.        *)
C28_NoStaleAlert ==
    [][last'.op = "notify_due_tasks"
       => \A k \in 1..Len(last'.delivered) :
             \E i \in 1..Len(tasks) :
                /\ tasks[i].name = last'.delivered[k]
                /\ tasks[i].status = STATUS_ACTIVE
                /\ tasks[i].due_date = strftime(DateOf(now))]_vars

Refreshed ==
    \/ \E n \in TaskNames \cup DueNames, d \in PollDates, p \in PriorityNames, c \in Categories :
          Strip(n) # <<>> /\ MainWindow_add_task(n, d, p, c)
    \/ \E sel \in SUBSET (0..(MaxQueryTasks - 1)) : remove_selected_task(sel)
    \/ refresh_task

(* C30: when update_task_list returns, task_row_to_id has one entry per    *)
(* task of list_tasks(user_id) and no other: its keys are the rows of the  *)
(* table, row r maps to the id of the task shown in row r, and both are    *)
(* empty when the user has no listed task left.                            *)
C30_RowMapConsistent ==
    [][Refreshed
       => LET rows == list_tasks(SessionUser, NoneStatus)'
          IN  /\ DOMAIN task_row_to_id' = 0..(Len(rows) - 1)
              /\ Len(task_table') = Len(rows)
              /\ { task_row_to_id'[r] : r \in DOMAIN task_row_to_id' } = ListedIds(rows)
              /\ \A r \in DOMAIN task_row_to_id' :
                    \E k \in 1..Len(rows) :
                       /\ rows[k].id = task_row_to_id'[r]
                       /\ task_table'[r + 1].name = rows[k].name
                       /\ task_table'[r + 1].due_date = rows[k].due_date]_vars

====
